---- MODULE Spec2Model ----
(***************************************************************************)
(* Model of the simulated block filesystem: VirtualDisk (superblock,       *)
(* bitmap, allocator), InodeManager, DirectoryManager, the FileSystem      *)
(* facade (create / write / read / delete / crash / recovery) and the      *)
(* DefragManager compactor.                                                *)
(*                                                                         *)
(* Block contents are kept symbolically.  A block is one of                *)
(*   zero : all bytes 0                                                    *)
(*   data : n bytes of the fill byte v followed by zeros                   *)
(*   ptr  : a packed array of 32-bit block references followed by zeros    *)
(*   dir  : a packed array of directory entries followed by zeros          *)
(* and the three readers of the code (bytes, references, entries) are      *)
(* operators that reinterpret one kind as another the way the byte layout  *)
(* does for the payloads, names and disk size used here.                   *)
(***************************************************************************)
EXTENDS Integers, Sequences, FiniteSets, TLC

\* ---------------------------------------------------------------- constants
BLOCK_SIZE == 4096
DIRECT_BLOCKS == 12
INODE_SIZE == 128
DIR_ENTRY_SIZE == 64
JOURNAL_SIZE == 64
RECOVERY_SCAN_LIMIT == 128
\* uint32 fields are kept as their 32-bit pattern read as int32: 0xFFFFFFFF
\* (UINT32_MAX, the -1 the code stores in block slots) is -1
UINT32_MAX == -1

FT_FREE == 0
FT_REGULAR_FILE == 1
FT_DIRECTORY == 2

\* ------------------------------------------------------------------- bounds
\* number of blocks of the image (createFileSystem(DiskBlocks * BLOCK_SIZE))
DiskBlocks == 85
\* the clock (time(nullptr)) runs from 1 to MaxClock seconds
MaxClock == 2
\* Inode::blockCount is only ever incremented by writeFile; calls that would
\* take it past MaxBlockCount are left out
MaxBlockCount == 14
\* number of facade calls and clock ticks in a run
MaxSteps == 5

\* ------------------------------------------------------------------- layout
Min(a, b) == IF a < b THEN a ELSE b
CeilDiv(a, b) == (a + b - 1) \div b

totalBlocks == DiskBlocks
inodeCount == totalBlocks \div 8
calculateBitmapBlocks == CeilDiv(totalBlocks, BLOCK_SIZE * 8)
calculateInodeBlocks == CeilDiv(inodeCount, BLOCK_SIZE \div INODE_SIZE)
bitmapStart == 1
inodeTableStart == bitmapStart + calculateBitmapBlocks
journalStart == inodeTableStart + calculateInodeBlocks
dataBlocksStart == journalStart + JOURNAL_SIZE

Blocks == 0..(totalBlocks - 1)
DataBlocks == dataBlocksStart..(totalBlocks - 1)
InodeNums == 0..(inodeCount - 1)

\* ----------------------------------------------------------- block contents
ZeroBlock == [k |-> "zero", v |-> 0, n |-> 0, p |-> <<>>, e |-> <<>>]
DataContent(v, n) ==
    IF n = 0 \/ v = 0 THEN ZeroBlock
    ELSE [k |-> "data", v |-> v, n |-> n, p |-> <<>>, e |-> <<>>]
PtrContent(ptrs) ==
    IF ptrs = <<>> THEN ZeroBlock
    ELSE [k |-> "ptr", v |-> 0, n |-> 0, p |-> ptrs, e |-> <<>>]
DirContent(entries) ==
    IF entries = <<>> THEN ZeroBlock
    ELSE [k |-> "dir", v |-> 0, n |-> 0, p |-> <<>>, e |-> entries]
\* a system-region block read as file bytes: the journal is all zeros, the
\* superblock, bitmap and inode table are opaque
SysContent(b) ==
    IF b >= journalStart THEN ZeroBlock
    ELSE [k |-> "sys", v |-> b, n |-> 0, p |-> <<>>, e |-> <<>>]

\* ------------------------------------------------------- directory entries
\* DirectoryEntry(inode, name, type): the name is cut to
\* MAX_FILENAME_LENGTH - 1 characters; names are sequences of character codes
MAX_FILENAME_LENGTH == 56
Entry(ino, name, type) ==
    [inodeNumber |-> ino,
     fileType |-> type,
     name |-> SubSeq(name, 1, Min(MAX_FILENAME_LENGTH - 1, Len(name)))]
\* DirectoryEntry::isValid (nameLength is the length of the stored name)
isValidEntry(e) == e.inodeNumber # 0 /\ Len(e.name) > 0

Pow256(k) == CASE k = 0 -> 1 [] k = 1 -> 256 [] k = 2 -> 65536
               [] OTHER -> 16777216
\* the fill byte v (below 128) repeated over r bytes of a little-endian
\* 32-bit word
FillWord(v, r) ==
    v * (CASE r <= 0 -> 0 [] r = 1 -> 1 [] r = 2 -> 257 [] r = 3 -> 65793
           [] OTHER -> 16843009)

\* the k-th (0-based) 32-bit word of the filename field of an entry
NameWord(name, k) ==
    LET ch(j) == IF 4 * k + j <= Len(name) THEN name[4 * k + j] ELSE 0
    IN  ch(1) + 256 * ch(2) + 65536 * ch(3) + 16777216 * ch(4)
\* the 16 words of one 64-byte directory slot: inodeNumber, nameLength and
\* fileType (two padding bytes), padding, then the filename
EntryWords(e) ==
    [w \in 1..16 |->
        CASE w = 1 -> e.inodeNumber
          [] w = 2 -> Len(e.name) + 256 * e.fileType
          [] w = 3 -> 0
          [] OTHER -> NameWord(e.name, w - 4)]

RECURSIVE TrimZeros(_)
TrimZeros(ws) ==
    IF ws = <<>> THEN <<>>
    ELSE IF ws[Len(ws)] = 0 THEN TrimZeros(SubSeq(ws, 1, Len(ws) - 1))
    ELSE ws

\* the block read as an array of 32-bit words (trailing zero words dropped)
BlockWords(c) ==
    CASE c.k = "ptr" -> c.p
      [] c.k = "data" ->
            [i \in 1..CeilDiv(c.n, 4) |->
                IF 4 * i <= c.n THEN FillWord(c.v, 4) ELSE FillWord(c.v, c.n % 4)]
      [] c.k = "dir" ->
            TrimZeros([i \in 1..(16 * Len(c.e)) |->
                EntryWords(c.e[((i - 1) \div 16) + 1])[((i - 1) % 16) + 1]])
      [] OTHER -> <<>>

\* the directory slot s (0-based) of a block holding n bytes of the byte v
DataSlotEntry(v, n, s) ==
    LET r == n - DIR_ENTRY_SIZE * s
    IN  [inodeNumber |-> FillWord(v, Min(r, 4)),
         fileType |-> IF r >= 6 THEN v ELSE 0,
         name |-> IF r >= 5 THEN [j \in 1..v |-> IF 12 + j <= r THEN v ELSE 0]
                  ELSE <<>>]
\* the directory slot s (0-based) of a block holding the words ws
WordSlotEntry(ws, s) ==
    LET W(i) == IF 16 * s + i <= Len(ws) THEN ws[16 * s + i] ELSE 0
        nl == W(2) % 256
    IN  [inodeNumber |-> W(1),
         fileType |-> (W(2) \div 256) % 256,
         name |-> [j \in 1..nl |->
                     (W(4 + ((j - 1) \div 4)) \div Pow256((j - 1) % 4)) % 256]]

\* the block read as directory slots, slot 0 first (trailing zero slots
\* dropped); readDirectoryEntries keeps the valid ones
BlockSlots(c) ==
    CASE c.k = "dir" -> c.e
      [] c.k = "data" ->
            [s \in 1..CeilDiv(c.n, DIR_ENTRY_SIZE) |-> DataSlotEntry(c.v, c.n, s - 1)]
      [] c.k = "ptr" ->
            [s \in 1..CeilDiv(Len(c.p), 16) |-> WordSlotEntry(c.p, s - 1)]
      [] OTHER -> <<>>

\* the first m bytes of one directory slot, the rest zero
TruncEntry(e, r) ==
    [inodeNumber |-> IF r >= 4 THEN e.inodeNumber ELSE e.inodeNumber % Pow256(r),
     fileType |-> IF r >= 6 THEN e.fileType ELSE 0,
     name |-> IF r >= 5 THEN [j \in 1..Len(e.name) |-> IF 12 + j <= r THEN e.name[j] ELSE 0]
              ELSE <<>>]
\* the first m bytes of a block, the rest zero (a buffer that was zeroed and
\* then received m bytes of the block)
TruncateContent(c, m) ==
    IF m >= BLOCK_SIZE THEN c
    ELSE IF m <= 0 THEN ZeroBlock
    ELSE CASE c.k = "data" -> DataContent(c.v, Min(c.n, m))
           [] c.k = "ptr" ->
                PtrContent(TrimZeros(
                    [i \in 1..Min(Len(c.p), CeilDiv(m, 4)) |->
                        IF 4 * i <= m THEN c.p[i] ELSE c.p[i] % Pow256(m % 4)]))
           [] c.k = "dir" ->
                DirContent(
                    [s \in 1..Min(Len(c.e), CeilDiv(m, DIR_ENTRY_SIZE)) |->
                        TruncEntry(c.e[s], m - DIR_ENTRY_SIZE * (s - 1))])
           [] OTHER -> c

\* ------------------------------------------------------------ byte vectors
\* A byte vector (payload, result of readFile) is a sequence of runs: n bytes
\* of the value v, or (v = -1) the first n bytes of a block that holds
\* references, directory slots or system data.
Run(v, n) == [v |-> v, n |-> n, c |-> ZeroBlock]
RawRun(c, n) == [v |-> -1, n |-> n, c |-> TruncateContent(c, n)]
Payload(v, n) == IF n = 0 THEN <<>> ELSE <<Run(v, n)>>

AppendRun(vec, r) ==
    IF r.n = 0 THEN vec
    ELSE IF vec # <<>> /\ r.v >= 0 /\ vec[Len(vec)].v = r.v
         THEN [vec EXCEPT ![Len(vec)].n = @ + r.n]
         ELSE Append(vec, r)
\* the first m bytes of a block
BlockRuns(c, m) ==
    CASE c.k = "zero" -> <<Run(0, m)>>
      [] c.k = "data" -> <<Run(c.v, Min(c.n, m)), Run(0, m - Min(c.n, m))>>
      [] OTHER -> <<RawRun(c, m)>>
RECURSIVE AppendRuns(_, _)
AppendRuns(vec, rs) ==
    IF rs = <<>> THEN vec ELSE AppendRuns(AppendRun(vec, rs[1]), Tail(rs))
RECURSIVE VecLen(_)
VecLen(vec) == IF vec = <<>> THEN 0 ELSE vec[1].n + VecLen(Tail(vec))

\* -------------------------------------------------------------------- state
VARIABLES
    mounted,              \* FileSystem::mounted_
    bitmap,               \* VirtualDisk::bitmap_ (TRUE = free)
    sb,                   \* VirtualDisk::superblock_ (freeBlocks, cleanShutdown)
    diskSb,               \* block 0 of the image
    diskBitmap,           \* the bitmap blocks of the image
    inodes,               \* the inode table of the image
    blocks,               \* the data-region blocks of the image
    blockOwners,          \* FileSystem::blockOwners_
    hasCorruption,        \* FileSystem::hasCorruption_
    corruptedBlocks,      \* FileSystem::corruptedBlocks_
    activeWriteInodeNum,  \* FileSystem::activeWriteInodeNum_
    clock,                \* time(nullptr)
    steps,                \* calls and ticks left to the run
    last                  \* the facade call that produced this state

vars == <<mounted, bitmap, sb, diskSb, diskBitmap, inodes, blocks, blockOwners,
          hasCorruption, corruptedBlocks, activeWriteInodeNum, clock, steps, last>>

\* Inode::reset
ResetInode ==
    [inodeNumber |-> 0, fileType |-> FT_FREE, fileSize |-> 0, blockCount |-> 0,
     modifiedTime |-> 0, directBlocks |-> [i \in 1..DIRECT_BLOCKS |-> 0],
     indirectBlock |-> 0]

\* The part of the state the managers work on, threaded through the helpers.
\* sysWrite records a writeBlock or a reference array aimed at the system
\* region, which the symbolic block contents do not follow.
Disk ==
    [bitmap |-> bitmap, freeBlocks |-> sb.freeBlocks, inodes |-> inodes,
     blocks |-> blocks, owners |-> blockOwners, sysWrite |-> FALSE]


\* e bound to a name inside F: the value of a call, used several times
Bind(e, F(_)) == CHOOSE r \in {F(v) : v \in {e}} : TRUE

\* ------------------------------------------------------------- VirtualDisk
\* VirtualDisk::readBlock, as block contents
BlockAt(d, b) == IF b < dataBlocksStart THEN SysContent(b) ELSE d.blocks[b]

\* a < b on two uint32 values
ULess(a, b) == IF (a >= 0) = (b >= 0) THEN a < b ELSE b < 0

\* VirtualDisk::writeBlock
writeBlock(d, b, c) ==
    IF ~ULess(b, totalBlocks) THEN d
    ELSE IF b < dataBlocksStart THEN [d EXCEPT !.sysWrite = TRUE]
    ELSE [d EXCEPT !.blocks[b] = c]

FreeDataBlocks(bm) == {b \in DataBlocks : bm[b]}
SetMin(S) == CHOOSE x \in S : \A y \in S : x <= y

\* allocateBlock that forgets the free count
allocateBlockNoCount(d) ==
    Bind(FreeDataBlocks(d.bitmap), LAMBDA free :
        IF free = {} THEN [d |-> d, r |-> -1]
        ELSE Bind(SetMin(free), LAMBDA b :
                 [d |-> [d EXCEPT !.bitmap[b] = FALSE], r |-> b]))

\* VirtualDisk::allocateBlock: r is the block, or -1
allocateBlock(d) ==
    Bind(FreeDataBlocks(d.bitmap), LAMBDA free :
        IF free = {} THEN [d |-> d, r |-> -1]
        ELSE Bind(SetMin(free), LAMBDA b :
                 [d |-> [d EXCEPT !.bitmap[b] = FALSE, !.freeBlocks = @ - 1],
                  r |-> b]))

\* VirtualDisk::allocateBlockCompact: the lowest free data block, with the
\* bookkeeping of allocateBlock
allocateBlockCompact(d) ==
    Bind(FreeDataBlocks(d.bitmap), LAMBDA free :
        IF free = {} THEN [d |-> d, r |-> -1]
        ELSE Bind(SetMin(free), LAMBDA b :
                 [d |-> [d EXCEPT !.bitmap[b] = FALSE, !.freeBlocks = @ - 1],
                  r |-> b]))

Pow2(k) == CASE k = 0 -> 1 [] k = 1 -> 2 [] k = 2 -> 4 [] k = 3 -> 8
             [] k = 4 -> 16 [] k = 5 -> 32 [] k = 6 -> 64 [] k = 7 -> 128
\* byte j of the bitmap block: bit number `bit` and above, bit k standing
\* for block 8 j + k (set = free); bits past the last block stay 0
RECURSIVE bitmapByte(_, _, _)
bitmapByte(bm, j, bit) ==
    IF bit >= 8 \/ 8 * j + bit >= totalBlocks THEN 0
    ELSE (IF bm[8 * j + bit] THEN Pow2(bit) ELSE 0) + bitmapByte(bm, j, bit + 1)
\* writeBitmap that only writes the bytes all of whose 8 bits exist
writeBitmapWholeBytes(bm) ==
    [j \in 0..(CeilDiv(totalBlocks, 8) - 1) |->
        IF 8 * j + 8 <= totalBlocks THEN bitmapByte(bm, j, 0) ELSE 0]
\* VirtualDisk::writeBitmap: the bytes of the bitmap block that hold bits
writeBitmap(bm) ==
    [j \in 0..(CeilDiv(totalBlocks, 8) - 1) |-> bitmapByte(bm, j, 0)]
\* VirtualDisk::readBitmap: totalBlocks bits, least significant bit first
readBitmap(bytes) ==
    [b \in Blocks |-> (bytes[b \div 8] \div Pow2(b % 8)) % 2 = 1]

\* freeBlock without the test that the block is in use
freeBlockUnchecked(d, b) ==
    IF ~ULess(b, totalBlocks) THEN d
    ELSE IF b < dataBlocksStart THEN d
    ELSE [d EXCEPT !.bitmap[b] = TRUE,
                   !.freeBlocks = @ + 1,
                   !.blocks[b] = ZeroBlock]

\* VirtualDisk::freeBlock, the value it returns
freeBlockReturns(d, b) ==
    IF ~ULess(b, totalBlocks) THEN FALSE
    ELSE IF b < dataBlocksStart THEN FALSE
    ELSE ~d.bitmap[b]

\* freeBlock without the system-region test
freeBlockAnyRegion(d, b) ==
    IF ~ULess(b, totalBlocks) THEN d
    ELSE IF ~d.bitmap[b]
         THEN [d EXCEPT !.bitmap[b] = TRUE,
                        !.freeBlocks = @ + 1,
                        !.blocks[b] = ZeroBlock]
         ELSE d

\* VirtualDisk::freeBlock
freeBlock(d, b) ==
    IF ~ULess(b, totalBlocks) THEN d
    ELSE IF b < dataBlocksStart THEN d
    ELSE IF ~d.bitmap[b]
         THEN [d EXCEPT !.bitmap[b] = TRUE,
                        !.freeBlocks = @ + 1,
                        !.blocks[b] = ZeroBlock]
         ELSE d

\* freeBlock over a list of blocks, in order
RECURSIVE freeBlocksOf(_, _)
freeBlocksOf(d, bs) ==
    IF bs = <<>> THEN d
    ELSE Bind(freeBlock(d, bs[1]), LAMBDA d1 : freeBlocksOf(d1, Tail(bs)))

\* ------------------------------------------------------------ InodeManager
\* the validity test getInodeBlocks applies to a direct slot, the indirect
\* reference and every word of the indirect block
IsValidRef(v) == ULess(0, v) /\ v # UINT32_MAX /\ ULess(v, totalBlocks)

\* InodeManager::getInodeBlocks: direct slots, then the indirect block's words
getInodeBlocks(d, inode) ==
    SelectSeq(inode.directBlocks, IsValidRef)
    \o (IF IsValidRef(inode.indirectBlock)
        THEN SelectSeq(BlockWords(BlockAt(d, inode.indirectBlock)), IsValidRef)
        ELSE <<>>)

\* InodeManager::writeInode
writeInode(d, i, inode) ==
    IF ~ULess(i, inodeCount) THEN d ELSE [d EXCEPT !.inodes[i] = inode]

FreeInodeNums(d) == {i \in InodeNums : d.inodes[i].fileType = FT_FREE}

\* InodeManager::allocateInode: r is the inode number, or -1
allocateInode(d, type, now) ==
    Bind(FreeInodeNums(d), LAMBDA free :
        IF free = {} THEN [d |-> d, r |-> -1]
        ELSE Bind(SetMin(free), LAMBDA i :
                 [d |-> [d EXCEPT !.inodes[i] =
                            [@ EXCEPT !.inodeNumber = i, !.fileType = type,
                                      !.fileSize = 0, !.blockCount = 0,
                                      !.modifiedTime = now]],
                  r |-> i]))

\* freeInode that marks the record free without zeroing it
freeInodeTypeOnly(d, i) ==
    IF ~ULess(i, inodeCount) THEN d
    ELSE Bind(freeBlocksOf(d, getInodeBlocks(d, d.inodes[i])), LAMBDA d1 :
             writeInode(d1, i, [d1.inodes[i] EXCEPT !.fileType = FT_FREE]))

\* InodeManager::freeInode
freeInode(d, i) ==
    IF ~ULess(i, inodeCount) THEN d
    ELSE Bind(freeBlocksOf(d, getInodeBlocks(d, d.inodes[i])), LAMBDA d1 :
             writeInode(d1, i, ResetInode))

\* InodeManager::readIndirectBlock: the words before the first zero word
RECURSIVE UntilZero(_)
UntilZero(ws) ==
    IF ws = <<>> \/ ws[1] = 0 THEN <<>> ELSE <<ws[1]>> \o UntilZero(Tail(ws))
readIndirectBlock(d, b) ==
    IF ~ULess(b, totalBlocks) THEN <<>> ELSE UntilZero(BlockWords(BlockAt(d, b)))

\* InodeManager::addBlockToInode: the inode is changed in memory only
addBlockToInode(d, inode, blockNum) ==
    Bind({j \in 1..DIRECT_BLOCKS : inode.directBlocks[j] = 0}, LAMBDA zeros :
        IF zeros # {}
        THEN [d |-> d, ok |-> TRUE,
              inode |-> [inode EXCEPT !.directBlocks[SetMin(zeros)] = blockNum,
                                      !.blockCount = @ + 1]]
        ELSE IF inode.indirectBlock = 0
        THEN Bind(allocateBlock(d), LAMBDA a :
                 IF a.r < 0 THEN [d |-> d, ok |-> FALSE, inode |-> inode]
                 ELSE [d |-> writeBlock(a.d, a.r, PtrContent(<<blockNum>>)),
                       ok |-> TRUE,
                       inode |-> [inode EXCEPT !.indirectBlock = a.r,
                                               !.blockCount = @ + 1]])
        ELSE [d |-> writeBlock(d, inode.indirectBlock,
                       PtrContent(Append(readIndirectBlock(d, inode.indirectBlock),
                                         blockNum))),
              ok |-> ULess(inode.indirectBlock, totalBlocks),
              inode |-> [inode EXCEPT !.blockCount = @ + 1]])

\* -------------------------------------------------------- DirectoryManager
entriesPerBlock == BLOCK_SIZE \div DIR_ENTRY_SIZE

RECURSIVE ConcatSlots(_, _)
ConcatSlots(d, bs) ==
    IF bs = <<>> THEN <<>>
    ELSE SelectSeq(BlockSlots(BlockAt(d, bs[1])), isValidEntry)
         \o ConcatSlots(d, Tail(bs))
\* DirectoryManager::readDirectoryEntries: the valid slots of every block
readDirectoryEntries(d, dirInode) == ConcatSlots(d, getInodeBlocks(d, dirInode))

\* the allocation loop of writeDirectoryEntries
RECURSIVE growDirectory(_, _, _, _)
growDirectory(d, dirInode, bs, blocksNeeded) ==
    IF Len(bs) >= blocksNeeded
    THEN [d |-> d, inode |-> dirInode, bs |-> bs, ok |-> TRUE]
    ELSE Bind(allocateBlock(d), LAMBDA a :
            IF a.r < 0
            THEN [d |-> d, inode |-> dirInode, bs |-> bs, ok |-> FALSE]
            ELSE Bind(addBlockToInode(a.d, dirInode, a.r), LAMBDA ad :
                    IF ~ad.ok
                    THEN [d |-> freeBlock(ad.d, a.r), inode |-> ad.inode,
                          bs |-> bs, ok |-> FALSE]
                    ELSE growDirectory(ad.d, ad.inode, Append(bs, a.r),
                                       blocksNeeded)))

\* the two write loops of writeDirectoryEntries: block idx (1-based) of bs
\* receives its 64 entries, the blocks past blocksNeeded are zeroed
RECURSIVE writeEntryBlocks(_, _, _, _, _)
writeEntryBlocks(d, bs, entries, blocksNeeded, idx) ==
    IF idx > Len(bs) THEN d
    ELSE Bind(writeBlock(d, bs[idx],
                  IF idx <= blocksNeeded
                  THEN DirContent(SubSeq(entries, entriesPerBlock * (idx - 1) + 1,
                                         Min(entriesPerBlock * idx, Len(entries))))
                  ELSE ZeroBlock),
              LAMBDA d1 : writeEntryBlocks(d1, bs, entries, blocksNeeded, idx + 1))

\* writeDirectoryEntries without the loop that zeroes the blocks past
\* blocksNeeded
writeDirectoryEntriesNoZero(d, dirInode, entries, now) ==
    Bind(IF entries = <<>> THEN 1 ELSE CeilDiv(Len(entries), entriesPerBlock),
         LAMBDA blocksNeeded :
    Bind(growDirectory(d, dirInode, getInodeBlocks(d, dirInode), blocksNeeded),
         LAMBDA g :
        IF ~g.ok THEN [d |-> g.d, ok |-> FALSE]
        ELSE Bind(writeEntryBlocks(g.d, SubSeq(g.bs, 1, blocksNeeded), entries,
                                   blocksNeeded, 1), LAMBDA w :
                 [d |-> writeInode(w, g.inode.inodeNumber,
                            [g.inode EXCEPT
                                !.fileSize = Len(entries) * DIR_ENTRY_SIZE,
                                !.modifiedTime = now]),
                  ok |-> ULess(g.inode.inodeNumber, inodeCount)])))

\* DirectoryManager::writeDirectoryEntries
writeDirectoryEntries(d, dirInode, entries, now) ==
    Bind(IF entries = <<>> THEN 1 ELSE CeilDiv(Len(entries), entriesPerBlock),
         LAMBDA blocksNeeded :
    Bind(growDirectory(d, dirInode, getInodeBlocks(d, dirInode), blocksNeeded),
         LAMBDA g :
        IF ~g.ok THEN [d |-> g.d, ok |-> FALSE]
        ELSE Bind(writeEntryBlocks(g.d, g.bs, entries, blocksNeeded, 1), LAMBDA w :
                 [d |-> writeInode(w, g.inode.inodeNumber,
                            [g.inode EXCEPT
                                !.fileSize = Len(entries) * DIR_ENTRY_SIZE,
                                !.modifiedTime = now]),
                  ok |-> ULess(g.inode.inodeNumber, inodeCount)])))

HasName(entries, name) == \E k \in 1..Len(entries) : entries[k].name = name

\* the inode number of the first entry called name, as int32; -1 if none
FirstNamed(entries, name) ==
    IF ~HasName(entries, name) THEN -1
    ELSE entries[SetMin({j \in 1..Len(entries) : entries[j].name = name})].inodeNumber

\* DirectoryManager::lookupEntry: the inode number as int32, or -1
lookupEntry(d, dirInodeNum, name) ==
    IF ~ULess(dirInodeNum, inodeCount) THEN -1
    ELSE FirstNamed(readDirectoryEntries(d, d.inodes[dirInodeNum]), name)

\* DirectoryManager::resolvePath for an absolute path given as its components
RECURSIVE walkPath(_, _, _)
walkPath(d, cur, comps) ==
    IF comps = <<>> THEN cur
    ELSE Bind(lookupEntry(d, cur, comps[1]), LAMBDA nxt :
            IF nxt < 0 THEN -1 ELSE walkPath(d, nxt, Tail(comps)))
resolvePath(d, path) == walkPath(d, 0, path)

\* DirectoryManager::addEntry
addEntry(d, dirInodeNum, name, entryInodeNum, type, now) ==
    IF ~ULess(dirInodeNum, inodeCount) THEN [d |-> d, ok |-> FALSE]
    ELSE IF d.inodes[dirInodeNum].fileType # FT_DIRECTORY THEN [d |-> d, ok |-> FALSE]
    ELSE Bind(readDirectoryEntries(d, d.inodes[dirInodeNum]), LAMBDA entries :
            IF HasName(entries, name) THEN [d |-> d, ok |-> FALSE]
            ELSE writeDirectoryEntries(d, d.inodes[dirInodeNum],
                     Append(entries, Entry(entryInodeNum, name, type)), now))

\* the entries whose name is not name
RECURSIVE WithoutName(_, _)
WithoutName(entries, name) ==
    IF entries = <<>> THEN <<>>
    ELSE (IF entries[1].name = name THEN <<>> ELSE <<entries[1]>>)
         \o WithoutName(Tail(entries), name)

\* DirectoryManager::removeEntry
removeEntry(d, dirInodeNum, name, now) ==
    IF ~ULess(dirInodeNum, inodeCount) THEN [d |-> d, ok |-> FALSE]
    ELSE Bind(readDirectoryEntries(d, d.inodes[dirInodeNum]), LAMBDA entries :
            IF ~HasName(entries, name) THEN [d |-> d, ok |-> FALSE]
            ELSE writeDirectoryEntries(d, d.inodes[dirInodeNum],
                     WithoutName(entries, name), now))

\* DirectoryManager::createDirectory
createDirectory(d, name, parentInodeNum, now) ==
    Bind(allocateInode(d, FT_DIRECTORY, now), LAMBDA a :
        IF a.r < 0 THEN [d |-> d, ok |-> FALSE]
        ELSE Bind(writeDirectoryEntries(a.d, a.d.inodes[a.r],
                      <<Entry(a.r, <<46>>, FT_DIRECTORY),
                        Entry(parentInodeNum, <<46, 46>>, FT_DIRECTORY)>>, now),
                  LAMBDA w :
                 IF ~w.ok THEN [d |-> freeInode(w.d, a.r), ok |-> FALSE]
                 ELSE addEntry(w.d, parentInodeNum, name, a.r, FT_DIRECTORY, now)))

\* --------------------------------------------------------------- FileSystem
NO_OWNER == UINT32_MAX
\* FileSystem::setBlockOwner, FileSystem::clearBlockOwner
setBlockOwner(d, b, i) == [d EXCEPT !.owners[b] = i]
clearBlockOwner(d, b) ==
    IF b \in DOMAIN d.owners THEN [d EXCEPT !.owners[b] = NO_OWNER] ELSE d

\* the split of a path into the directory part and the last component
DirOf(path) == SubSeq(path, 1, Len(path) - 1)
NameOf(path) == path[Len(path)]

\* FileSystem::createFile
createFile(d, path, now) ==
    Bind(resolvePath(d, DirOf(path)), LAMBDA dirInode :
        IF dirInode < 0 THEN [d |-> d, ok |-> FALSE]
        ELSE IF lookupEntry(d, dirInode, NameOf(path)) >= 0 THEN [d |-> d, ok |-> FALSE]
        ELSE Bind(allocateInode(d, FT_REGULAR_FILE, now), LAMBDA a :
                 IF a.r < 0 THEN [d |-> d, ok |-> FALSE]
                 ELSE addEntry(a.d, dirInode, NameOf(path), a.r, FT_REGULAR_FILE, now)))

\* the loop of writeFile over the old blocks
RECURSIVE releaseBlocks(_, _)
releaseBlocks(d, bs) ==
    IF bs = <<>> THEN d
    ELSE Bind(freeBlock(clearBlockOwner(d, bs[1]), bs[1]), LAMBDA d1 :
             releaseBlocks(d1, Tail(bs)))

\* the direct-block loop of allocateFileBlocks, slots i..n
RECURSIVE allocateDirect(_, _, _, _, _)
allocateDirect(d, inode, i, n, inodeNum) ==
    IF i > n THEN [d |-> d, inode |-> inode, ok |-> TRUE]
    ELSE Bind(allocateBlock(d), LAMBDA a :
            IF a.r < 0 THEN [d |-> d, inode |-> inode, ok |-> FALSE]
            ELSE Bind(setBlockOwner(a.d, a.r, inodeNum), LAMBDA d1 :
                 Bind([inode EXCEPT !.directBlocks[i] = a.r, !.blockCount = @ + 1],
                      LAMBDA inode1 :
                     allocateDirect(d1, inode1, i + 1, n, inodeNum))))

\* the indirect loop of allocateFileBlocks: ptrs collects pointers[0..]
RECURSIVE allocateIndirect(_, _, _, _, _)
allocateIndirect(d, inode, ptrs, n, inodeNum) ==
    IF Len(ptrs) >= n THEN [d |-> d, inode |-> inode, ptrs |-> ptrs, ok |-> TRUE]
    ELSE Bind(allocateBlock(d), LAMBDA a :
            IF a.r < 0 THEN [d |-> d, inode |-> inode, ptrs |-> ptrs, ok |-> FALSE]
            ELSE Bind(setBlockOwner(a.d, a.r, inodeNum), LAMBDA d1 :
                 Bind([inode EXCEPT !.blockCount = @ + 1], LAMBDA inode1 :
                     allocateIndirect(d1, inode1, Append(ptrs, a.r), n, inodeNum))))

\* the indirect part of allocateFileBlocks
allocateIndirectPart(d, inode, blocksNeeded, inodeNum) ==
    Bind(allocateBlock(d), LAMBDA a :
        IF a.r < 0 THEN [d |-> d, inode |-> inode, ok |-> FALSE]
        ELSE Bind(allocateIndirect(setBlockOwner(a.d, a.r, inodeNum),
                                   [inode EXCEPT !.indirectBlock = a.r],
                                   <<>>, blocksNeeded - DIRECT_BLOCKS, inodeNum),
                  LAMBDA ii :
                 IF ~ii.ok THEN [d |-> ii.d, inode |-> ii.inode, ok |-> FALSE]
                 ELSE [d |-> writeBlock(ii.d, a.r, PtrContent(ii.ptrs)),
                       inode |-> ii.inode, ok |-> TRUE]))

\* FileSystem::allocateFileBlocks(inode, blocksNeeded, inodeNum): blocks are
\* allocated and recorded, no payload byte is written
allocateFileBlocks(d, inode, blocksNeeded, inodeNum) ==
    IF blocksNeeded = 0 THEN [d |-> d, inode |-> inode, ok |-> TRUE]
    ELSE Bind(allocateDirect(d, inode, 1, Min(blocksNeeded, DIRECT_BLOCKS), inodeNum),
              LAMBDA dd :
            IF ~dd.ok \/ blocksNeeded <= DIRECT_BLOCKS THEN dd
            ELSE allocateIndirectPart(dd.d, dd.inode, blocksNeeded, inodeNum))

\* writeFile once the inode number is known
writeFileInode(d, fileInode, data) ==
    Bind(releaseBlocks(d, getInodeBlocks(d, d.inodes[fileInode])), LAMBDA d1 :
    Bind(allocateFileBlocks(d1,
             [d.inodes[fileInode] EXCEPT
                 !.directBlocks = [i \in 1..DIRECT_BLOCKS |-> UINT32_MAX],
                 !.indirectBlock = UINT32_MAX],
             CeilDiv(data.n, BLOCK_SIZE), fileInode),
         LAMBDA al :
        IF ~al.ok THEN [d |-> al.d, ok |-> FALSE]
        ELSE [d |-> writeInode(al.d, fileInode, [al.inode EXCEPT !.fileSize = data.n]),
              ok |-> TRUE]))

\* FileSystem::writeFile: the name is looked up in the root directory
writeFile(d, path, data) ==
    Bind(lookupEntry(d, 0, NameOf(path)), LAMBDA fileInode :
        IF fileInode < 0 \/ fileInode >= inodeCount THEN [d |-> d, ok |-> FALSE]
        ELSE writeFileInode(d, fileInode, data))

\* FileSystem::readFileData: block k of the list gives min(BLOCK_SIZE, what
\* is left of fileSize) bytes
RECURSIVE readBlocks(_, _, _, _)
readBlocks(d, bs, left, vec) ==
    IF bs = <<>> THEN vec
    ELSE Bind(Min(BLOCK_SIZE, left), LAMBDA m :
         Bind(IF m = 0 THEN vec ELSE AppendRuns(vec, BlockRuns(BlockAt(d, bs[1]), m)),
              LAMBDA vec1 :
             readBlocks(d, Tail(bs), left - m, vec1)))
readFileData(d, inode) == readBlocks(d, getInodeBlocks(d, inode), inode.fileSize, <<>>)

\* FileSystem::readFile
readFile(d, path) ==
    Bind(resolvePath(d, path), LAMBDA inodeNum :
        IF inodeNum < 0 \/ inodeNum >= inodeCount THEN [ok |-> FALSE, data |-> <<>>]
        ELSE IF d.inodes[inodeNum].fileType # FT_REGULAR_FILE
             THEN [ok |-> FALSE, data |-> <<>>]
             ELSE [ok |-> TRUE, data |-> readFileData(d, d.inodes[inodeNum])])

\* FileSystem::deleteFile
deleteFile(d, path, now) ==
    Bind(resolvePath(d, DirOf(path)), LAMBDA dirInode :
        IF dirInode < 0 THEN [d |-> d, ok |-> FALSE]
        ELSE Bind(lookupEntry(d, dirInode, NameOf(path)), LAMBDA fileInode :
                 IF fileInode < 0 \/ fileInode >= inodeCount THEN [d |-> d, ok |-> FALSE]
                 ELSE removeEntry(freeInode(d, fileInode), dirInode, NameOf(path), now)))

\* FileSystem::createDir
createDir(d, path, now) ==
    Bind(resolvePath(d, DirOf(path)), LAMBDA parentInode :
        IF parentInode < 0 THEN [d |-> d, ok |-> FALSE]
        ELSE createDirectory(d, NameOf(path), parentInode, now))

\* the valid direct slots of an inode, in slot order (simulatePowerCut,
\* defragmentFileSystem)
validDirectBlocks(inode) == SelectSeq(inode.directBlocks, IsValidRef)

\* the inode simulatePowerCut picks: the first one, in inode order, whose
\* modifiedTime is the largest (and above 0); UINT32_MAX if there is none
lastModifiedInode(d) ==
    Bind({i \in InodeNums : d.inodes[i].fileType # FT_FREE
                            /\ d.inodes[i].modifiedTime > 0}, LAMBDA valid :
        IF valid = {} THEN UINT32_MAX
        ELSE SetMin({i \in valid : \A j \in valid :
                        d.inodes[j].modifiedTime <= d.inodes[i].modifiedTime}))

\* FileSystem::simulatePowerCut: the image and the new corrupted list
simulatePowerCut(d) ==
    Bind(lastModifiedInode(d), LAMBDA t :
        IF t = UINT32_MAX THEN [d |-> d, corrupted |-> <<>>]
        ELSE [d |-> writeInode(d, t, [d.inodes[t] EXCEPT !.fileSize = 0]),
              corrupted |-> validDirectBlocks(d.inodes[t])])

\* the allocation loop of simulatePowerCutDuringWrite, slots i..n
RECURSIVE writePartial(_, _, _, _, _, _, _)
writePartial(d, inode, i, n, inodeNum, data, done) ==
    IF i > n THEN [d |-> d, inode |-> inode, allocated |-> done, ok |-> TRUE]
    ELSE Bind(allocateBlock(d), LAMBDA a :
            IF a.r < 0
            THEN [d |-> d, inode |-> inode, allocated |-> done, ok |-> FALSE]
            ELSE Bind(writeBlock(setBlockOwner(a.d, a.r, inodeNum), a.r,
                          DataContent(data.v,
                              Min(BLOCK_SIZE, data.n - (i - 1) * BLOCK_SIZE))),
                      LAMBDA d1 :
                 Bind([inode EXCEPT !.directBlocks[i] = a.r], LAMBDA inode1 :
                     writePartial(d1, inode1, i + 1, n, inodeNum, data,
                                  Append(done, a.r)))))

\* crashWrite with the corruption state recorded before the allocation
\* loop, so that a failed allocation leaves it set
crashWriteFlagFirst(d, inodeNum, data, crashPoint) ==
    Bind(writePartial(d, d.inodes[inodeNum], 1,
                      Min(CeilDiv(crashPoint, BLOCK_SIZE), DIRECT_BLOCKS),
                      inodeNum, data, <<>>),
         LAMBDA w :
        IF ~w.ok
        THEN [d |-> w.d, ok |-> FALSE, persisted |-> TRUE, corrupted |-> w.allocated,
              inodeNum |-> inodeNum]
        ELSE [d |-> writeInode(w.d, inodeNum,
                        [w.inode EXCEPT !.fileSize = crashPoint,
                                        !.blockCount = CeilDiv(crashPoint, BLOCK_SIZE)]),
              ok |-> TRUE, persisted |-> TRUE, corrupted |-> w.allocated,
              inodeNum |-> inodeNum])

\* steps 3 to 6 of simulatePowerCutDuringWrite, the file being created
crashWrite(d, inodeNum, data, crashPoint) ==
    Bind(writePartial(d, d.inodes[inodeNum], 1,
                      Min(CeilDiv(crashPoint, BLOCK_SIZE), DIRECT_BLOCKS),
                      inodeNum, data, <<>>),
         LAMBDA w :
        IF ~w.ok
        THEN [d |-> w.d, ok |-> FALSE, persisted |-> FALSE, corrupted |-> <<>>,
              inodeNum |-> inodeNum]
        ELSE [d |-> writeInode(w.d, inodeNum,
                        [w.inode EXCEPT !.fileSize = crashPoint,
                                        !.blockCount = CeilDiv(crashPoint, BLOCK_SIZE)]),
              ok |-> TRUE, persisted |-> TRUE, corrupted |-> w.allocated,
              inodeNum |-> inodeNum])

\* FileSystem::simulatePowerCutDuringWrite(filename, fullData, crashPercent),
\* crashPercent = pct / 100; persisted tells whether step 5 (writeBitmap)
\* and step 6 were reached
simulatePowerCutDuringWrite(d, path, data, pct, now) ==
    Bind(createFile(d, path, now), LAMBDA c :
        IF ~c.ok
        THEN [d |-> c.d, ok |-> FALSE, persisted |-> FALSE, corrupted |-> <<>>,
              inodeNum |-> 0]
        ELSE Bind(resolvePath(c.d, path), LAMBDA inodeNum :
                 IF inodeNum < 0 \/ inodeNum >= inodeCount
                 THEN [d |-> c.d, ok |-> FALSE, persisted |-> FALSE,
                       corrupted |-> <<>>, inodeNum |-> 0]
                 ELSE crashWrite(c.d, inodeNum, data, (data.n * pct) \div 100)))

InSeq(x, sq) == \E k \in 1..Len(sq) : sq[k] = x

\* the direct slots before the first slot that holds 0 (the loops of
\* runRecovery stop at directBlocks[i] == 0)
RECURSIVE slotsBeforeZero(_)
slotsBeforeZero(slots) ==
    IF slots = <<>> \/ slots[1] = 0 THEN <<>>
    ELSE <<slots[1]>> \o slotsBeforeZero(Tail(slots))

\* step 3 of runRecovery: inodes 1..127 that hold a corrupted block
affectedInodes(d, corrupted) ==
    {i \in InodeNums :
        /\ i >= 1 /\ i < RECOVERY_SCAN_LIMIT
        /\ d.inodes[i].fileType # FT_FREE
        /\ \E k \in 1..Len(corrupted) :
              InSeq(corrupted[k], slotsBeforeZero(d.inodes[i].directBlocks))}

\* the blocks of bs that are not in the corrupted list
RECURSIVE notCorrupted(_, _)
notCorrupted(bs, corrupted) ==
    IF bs = <<>> THEN <<>>
    ELSE (IF InSeq(bs[1], corrupted) THEN <<>> ELSE <<bs[1]>>)
         \o notCorrupted(Tail(bs), corrupted)

\* the first entry of the listing that names inodeNum is removed from the
\* root directory
removeListed(d, inodeNum, entries, now) ==
    Bind({k \in 1..Len(entries) : entries[k].inodeNumber = inodeNum}, LAMBDA hits :
        IF hits = {} THEN d
        ELSE removeEntry(d, 0, entries[SetMin(hits)].name, now).d)

\* step 4 of runRecovery for one inode
clearAffectedInode(d, inodeNum, corrupted, now) ==
    Bind(removeListed(d, inodeNum, readDirectoryEntries(d, d.inodes[0]), now),
         LAMBDA d1 :
    Bind(freeBlocksOf(d1, notCorrupted(slotsBeforeZero(d.inodes[inodeNum].directBlocks),
                                       corrupted)),
         LAMBDA d2 :
        freeInode(d2, inodeNum)))

RECURSIVE clearAffected(_, _, _, _)
clearAffected(d, todo, corrupted, now) ==
    IF todo = {} THEN d
    ELSE Bind(SetMin(todo), LAMBDA i :
         Bind(clearAffectedInode(d, i, corrupted, now), LAMBDA d1 :
             clearAffected(d1, todo \ {i}, corrupted, now)))

\* FileSystem::runRecovery with hasCorruption_ set
runRecovery(d, corrupted, now) ==
    Bind(freeBlocksOf(d, corrupted), LAMBDA d1 :
        clearAffected(d1, affectedInodes(d1, corrupted), corrupted, now))

\* ------------------------------------------------------------ DefragManager
\* DefragManager::countFileFragments: 1 + the breaks in the sorted list of
\* the valid direct slots (a repeated number is a break)
countFileFragments(inode) ==
    Bind({inode.directBlocks[k] : k \in {j \in 1..DIRECT_BLOCKS :
                                           IsValidRef(inode.directBlocks[j])}},
         LAMBDA bs :
    Bind(Len(validDirectBlocks(inode)), LAMBDA n :
        IF n <= 1 THEN n
        ELSE 1 + (n - Cardinality(bs))
               + Cardinality({b \in bs : b # SetMin(bs) /\ (b - 1) \notin bs})))

\* step 1 of defragmentFileSystem: the regular files with data
defragFiles(d) ==
    {i \in InodeNums : d.inodes[i].fileType = FT_REGULAR_FILE
                       /\ d.inodes[i].fileSize > 0}

\* block k of the data defragmentFileSystem collected for a file: the bytes
\* of its k-th valid direct block, cut at fileSize; zero past the last one
collectedBlock(d, inode, k) ==
    IF k > Len(validDirectBlocks(inode)) THEN ZeroBlock
    ELSE TruncateContent(BlockAt(d, validDirectBlocks(inode)[k]),
                         Min(BLOCK_SIZE, inode.fileSize - (k - 1) * BLOCK_SIZE))

\* freeBlock and clearBlockOwner over a list of blocks, in order
RECURSIVE dropBlocks(_, _)
dropBlocks(d, bs) ==
    IF bs = <<>> THEN d
    ELSE Bind(clearBlockOwner(freeBlock(d, bs[1]), bs[1]), LAMBDA d1 :
             dropBlocks(d1, Tail(bs)))

\* step 2: free the old direct blocks of every collected file (d0 is the
\* image the files were collected from)
RECURSIVE freeOldBlocks(_, _, _)
freeOldBlocks(d, d0, todo) ==
    IF todo = {} THEN d
    ELSE Bind(SetMin(todo), LAMBDA i :
         Bind(dropBlocks(d, validDirectBlocks(d0.inodes[i])), LAMBDA d1 :
             freeOldBlocks(d1, d0, todo \ {i})))

\* the allocation loop of step 3 (stops at the first failure)
RECURSIVE compactAllocate(_, _, _, _)
compactAllocate(d, n, inodeNum, done) ==
    IF Len(done) >= n THEN [d |-> d, newBlocks |-> done]
    ELSE Bind(allocateBlockCompact(d), LAMBDA a :
            IF a.r < 0 THEN [d |-> d, newBlocks |-> done]
            ELSE Bind(setBlockOwner(a.d, a.r, inodeNum), LAMBDA d1 :
                     compactAllocate(d1, n, inodeNum, Append(done, a.r))))

\* the write loop of step 3: new block k receives block k of the data
RECURSIVE writeCollected(_, _, _, _, _)
writeCollected(d, d0, old, nb, k) ==
    IF k > Len(nb) THEN d
    ELSE Bind(writeBlock(d, nb[k],
                  TruncateContent(collectedBlock(d0, old, k),
                      Min(BLOCK_SIZE, old.fileSize - (k - 1) * BLOCK_SIZE))),
              LAMBDA d1 : writeCollected(d1, d0, old, nb, k + 1))

\* the inode step 3 writes: the first DIRECT_BLOCKS new blocks, no indirect
\* block
compactedInode(old, nb) ==
    [old EXCEPT !.directBlocks = [j \in 1..DIRECT_BLOCKS |->
                                    IF j <= Len(nb) THEN nb[j] ELSE UINT32_MAX],
                !.indirectBlock = UINT32_MAX,
                !.blockCount = Min(Len(nb), DIRECT_BLOCKS)]

\* step 3 for one file
reallocateFile(d, d0, i) ==
    Bind(compactAllocate(d, CeilDiv(d0.inodes[i].fileSize, BLOCK_SIZE), i, <<>>),
         LAMBDA a :
    Bind(writeCollected(a.d, d0, d0.inodes[i], a.newBlocks, 1), LAMBDA d1 :
        writeInode(d1, i, compactedInode(d0.inodes[i], a.newBlocks))))

RECURSIVE reallocateFiles(_, _, _)
reallocateFiles(d, d0, todo) ==
    IF todo = {} THEN d
    ELSE Bind(SetMin(todo), LAMBDA i :
         Bind(reallocateFile(d, d0, i), LAMBDA d1 :
             reallocateFiles(d1, d0, todo \ {i})))

\* DefragManager::defragmentFileSystem (drain and reallocate)
defragmentFileSystem(d) ==
    Bind(freeOldBlocks(d, d, defragFiles(d)), LAMBDA d1 :
        reallocateFiles(d1, d, defragFiles(d)))

\* ------------------------------------------------------------------ volume
\* formatDisk with the system region taken one block too long
formatDiskInclusive ==
    [bitmap |-> [b \in Blocks |-> b > dataBlocksStart],
     freeBlocks |-> totalBlocks - dataBlocksStart - 1,
     inodes |-> [i \in InodeNums |-> ResetInode],
     blocks |-> [b \in DataBlocks |-> ZeroBlock],
     owners |-> [b \in Blocks |-> NO_OWNER],
     sysWrite |-> FALSE]

\* VirtualDisk::formatDisk: every data block free and zero, no inode in use
formatDisk ==
    [bitmap |-> [b \in Blocks |-> b >= dataBlocksStart],
     freeBlocks |-> totalBlocks - dataBlocksStart,
     inodes |-> [i \in InodeNums |-> ResetInode],
     blocks |-> [b \in DataBlocks |-> ZeroBlock],
     owners |-> [b \in Blocks |-> NO_OWNER],
     sysWrite |-> FALSE]

\* DirectoryManager::initializeRootDirectory on a formatted image
initializeRootDirectory(d, now) ==
    Bind([ResetInode EXCEPT !.fileType = FT_DIRECTORY, !.modifiedTime = now],
         LAMBDA rootInode :
        writeDirectoryEntries(writeInode(d, 0, rootInode), rootInode,
            <<Entry(0, <<46>>, FT_DIRECTORY), Entry(0, <<46, 46>>, FT_DIRECTORY)>>,
            now).d)

\* FileSystem::createFileSystem: the image right after construction
createFileSystem == initializeRootDirectory(formatDisk, 1)

\* ------------------------------------------------------------------ inputs
NameA == <<97>>
NameB == <<98>>
NameD == <<100>>
FilePaths == {<<NameA>>, <<NameB>>, <<NameD, NameA>>}
DirPaths == {<<NameD>>}
\* payloads: n bytes of the value v
WritePayloads ==
    {[v |-> 1, n |-> 0], [v |-> 1, n |-> 100], [v |-> 1, n |-> 2 * BLOCK_SIZE],
     [v |-> 1, n |-> (DIRECT_BLOCKS + 1) * BLOCK_SIZE]}
CrashPaths == {<<NameA>>, <<NameD, NameA>>}
CrashPayloads == {[v |-> 1, n |-> 100], [v |-> 1, n |-> (DIRECT_BLOCKS + 1) * BLOCK_SIZE]}
CrashPercents == {50, 100}
NoPath == <<>>
NoData == [v |-> 0, n |-> 0]

Call(op, path, data, pct, ok) ==
    [op |-> op, path |-> path, data |-> data, pct |-> pct, ok |-> ok]

\* the state after FileSystem(diskPath) and createFileSystem: the root
\* directory's block is allocated in memory, the bitmap on the image is the
\* one formatDisk wrote
InitWith(budget) ==
    /\ mounted = TRUE
    /\ \E d \in {createFileSystem} :
          /\ bitmap = d.bitmap
          /\ sb = [freeBlocks |-> d.freeBlocks, cleanShutdown |-> 1]
          /\ diskSb = [freeBlocks |-> d.freeBlocks, cleanShutdown |-> 1]
          /\ inodes = d.inodes
          /\ blocks = d.blocks
          /\ blockOwners = d.owners
    /\ diskBitmap = writeBitmap(formatDisk.bitmap)
    /\ hasCorruption = FALSE
    /\ corruptedBlocks = <<>>
    /\ activeWriteInodeNum = UINT32_MAX
    /\ clock = 1
    /\ steps = budget
    /\ last = Call("createFileSystem", NoPath, NoData, 0, TRUE)

Init == InitWith(MaxSteps)

\* the image and the in-memory bitmap and free count after a helper ran
Install(d) ==
    /\ \A i \in InodeNums : d.inodes[i].blockCount <= MaxBlockCount
    /\ bitmap' = d.bitmap
    /\ sb' = [sb EXCEPT !.freeBlocks = d.freeBlocks]
    /\ inodes' = d.inodes
    /\ blocks' = d.blocks
    /\ blockOwners' = d.owners

\* one more call or tick
Step == steps > 0 /\ steps' = steps - 1

\* a facade call on an unmounted volume: returns false, changes nothing.
\* (On a mounted volume a call that returns false and leaves the image as it
\* was is a stuttering step.)
Refused(op) ==
    /\ ~mounted
    /\ Step
    /\ last' = Call(op, NoPath, NoData, 0, FALSE)
    /\ UNCHANGED <<mounted, bitmap, sb, diskSb, diskBitmap, inodes, blocks,
                   blockOwners, hasCorruption, corruptedBlocks,
                   activeWriteInodeNum, clock>>

\* ----------------------------------------------------------------- actions
\* FileSystem::createFile
CreateFile ==
    \E path \in FilePaths :
        \/ /\ mounted
           /\ Step
           /\ \E r \in {createFile(Disk, path, clock)} :
                 /\ r.ok \/ r.d # Disk
                 /\ Install(r.d)
                 /\ last' = Call("createFile", path, NoData, 0, r.ok)
           /\ UNCHANGED <<mounted, diskSb, diskBitmap, hasCorruption,
                          corruptedBlocks, activeWriteInodeNum, clock>>
        \/ Refused("createFile")

\* FileSystem::writeFile
WriteFile ==
    \E path \in FilePaths \cup DirPaths, data \in WritePayloads :
        \/ /\ mounted
           /\ Step
           /\ \E r \in {writeFile(Disk, path, data)} :
                 /\ r.ok \/ r.d # Disk
                 /\ Install(r.d)
                 /\ last' = Call("writeFile", path, data, 0, r.ok)
           /\ UNCHANGED <<mounted, diskSb, diskBitmap, hasCorruption,
                          corruptedBlocks, activeWriteInodeNum, clock>>
        \/ Refused("writeFile")

\* FileSystem::deleteFile
DeleteFile ==
    \E path \in FilePaths \cup DirPaths :
        \/ /\ mounted
           /\ Step
           /\ \E r \in {deleteFile(Disk, path, clock)} :
                 /\ r.ok \/ r.d # Disk
                 /\ Install(r.d)
                 /\ last' = Call("deleteFile", path, NoData, 0, r.ok)
           /\ UNCHANGED <<mounted, diskSb, diskBitmap, hasCorruption,
                          corruptedBlocks, activeWriteInodeNum, clock>>
        \/ Refused("deleteFile")

\* FileSystem::createDir
CreateDir ==
    \E path \in DirPaths :
        \/ /\ mounted
           /\ Step
           /\ \E r \in {createDir(Disk, path, clock)} :
                 /\ r.ok \/ r.d # Disk
                 /\ Install(r.d)
                 /\ last' = Call("createDir", path, NoData, 0, r.ok)
           /\ UNCHANGED <<mounted, diskSb, diskBitmap, hasCorruption,
                          corruptedBlocks, activeWriteInodeNum, clock>>
        \/ Refused("createDir")

\* DefragManager::defragmentFileSystem, which ends with writeBitmap and
\* writeSuperblock and returns true
Defragment ==
    /\ mounted
    /\ Step
    /\ \E d \in {defragmentFileSystem(Disk)} :
          /\ Install(d)
          /\ diskBitmap' = writeBitmap(d.bitmap)
          /\ diskSb' = [sb EXCEPT !.freeBlocks = d.freeBlocks]
    /\ last' = Call("defragment", NoPath, NoData, 0, TRUE)
    /\ UNCHANGED <<mounted, hasCorruption, corruptedBlocks, activeWriteInodeNum,
                   clock>>

\* FileSystem::simulatePowerCut
SimulatePowerCut ==
    /\ mounted
    /\ Step
    /\ \E r \in {simulatePowerCut(Disk)} :
          Install(r.d) /\ corruptedBlocks' = r.corrupted
    /\ hasCorruption' = TRUE
    /\ activeWriteInodeNum' = UINT32_MAX
    /\ last' = Call("simulatePowerCut", NoPath, NoData, 0, TRUE)
    /\ UNCHANGED <<mounted, diskSb, diskBitmap, clock>>

\* FileSystem::simulatePowerCutDuringWrite
SimulatePowerCutDuringWrite ==
    \E path \in CrashPaths, data \in CrashPayloads, pct \in CrashPercents :
        \/ /\ mounted
           /\ Step
           /\ \E r \in {simulatePowerCutDuringWrite(Disk, path, data, pct, clock)} :
                 /\ r.ok \/ r.d # Disk
                 /\ Install(r.d)
                 /\ last' = Call("simulatePowerCutDuringWrite", path, data, pct, r.ok)
                 /\ IF r.persisted
                    THEN /\ diskBitmap' = writeBitmap(r.d.bitmap)
                         /\ corruptedBlocks' = r.corrupted
                         /\ hasCorruption' = TRUE
                         /\ activeWriteInodeNum' = r.inodeNum
                    ELSE UNCHANGED <<diskBitmap, corruptedBlocks, hasCorruption,
                                     activeWriteInodeNum>>
           /\ UNCHANGED <<mounted, diskSb, clock>>
        \/ Refused("simulatePowerCutDuringWrite")

\* FileSystem::runRecovery
RunRecovery ==
    /\ mounted
    /\ Step
    /\ IF ~hasCorruption
       THEN UNCHANGED <<bitmap, sb, diskSb, diskBitmap, inodes, blocks, blockOwners,
                        hasCorruption, corruptedBlocks, activeWriteInodeNum>>
       ELSE \E d \in {runRecovery(Disk, corruptedBlocks, clock)} :
                /\ Install(d)
                /\ diskBitmap' = writeBitmap(d.bitmap)
                /\ diskSb' = [sb EXCEPT !.freeBlocks = d.freeBlocks]
                /\ hasCorruption' = FALSE
                /\ corruptedBlocks' = <<>>
                /\ activeWriteInodeNum' = 0
    /\ last' = Call("runRecovery", NoPath, NoData, 0, TRUE)
    /\ UNCHANGED <<mounted, clock>>

\* FileSystem::unmountFileSystem: markClean, then closeDisk writes the bitmap
\* and the superblock
Unmount ==
    /\ mounted
    /\ Step
    /\ mounted' = FALSE
    /\ sb' = [sb EXCEPT !.cleanShutdown = 1]
    /\ diskSb' = [sb EXCEPT !.cleanShutdown = 1]
    /\ diskBitmap' = writeBitmap(bitmap)
    /\ last' = Call("unmountFileSystem", NoPath, NoData, 0, TRUE)
    /\ UNCHANGED <<bitmap, inodes, blocks, blockOwners, hasCorruption,
                   corruptedBlocks, activeWriteInodeNum, clock>>

\* mountFileSystem without the markDirty call
MountNoMarkDirty ==
    /\ ~mounted
    /\ Step
    /\ mounted' = TRUE
    /\ sb' = diskSb
    /\ bitmap' = readBitmap(diskBitmap)
    /\ last' = Call("mountFileSystem", NoPath, NoData, 0, TRUE)
    /\ UNCHANGED <<diskSb, diskBitmap, inodes, blocks, blockOwners, hasCorruption,
                   corruptedBlocks, activeWriteInodeNum, clock>>

\* FileSystem::mountFileSystem: openDisk reads the superblock and the bitmap
\* of the image, markDirty clears cleanShutdown
Mount ==
    /\ ~mounted
    /\ Step
    /\ mounted' = TRUE
    /\ sb' = [diskSb EXCEPT !.cleanShutdown = 0]
    /\ diskSb' = [diskSb EXCEPT !.cleanShutdown = 0]
    /\ bitmap' = readBitmap(diskBitmap)
    /\ last' = Call("mountFileSystem", NoPath, NoData, 0, TRUE)
    /\ UNCHANGED <<diskBitmap, inodes, blocks, blockOwners, hasCorruption,
                   corruptedBlocks, activeWriteInodeNum, clock>>

\* a second passes on the host clock (time(nullptr))
Tick ==
    /\ clock < MaxClock
    /\ Step
    /\ clock' = clock + 1
    /\ UNCHANGED <<mounted, bitmap, sb, diskSb, diskBitmap, inodes, blocks,
                   blockOwners, hasCorruption, corruptedBlocks,
                   activeWriteInodeNum, last>>

Next ==
    \/ CreateFile
    \/ WriteFile
    \/ DeleteFile
    \/ CreateDir
    \/ Defragment
    \/ SimulatePowerCut
    \/ SimulatePowerCutDuringWrite
    \/ RunRecovery
    \/ Unmount
    \/ Mount
    \/ Tick

Spec == Init /\ [][Next]_vars

\* --------------------------------------- facade calls outside the GUI's gating
\* FileSystem::simulatePowerCut has no mounted_ test: on an unmounted facade
\* it sets hasCorruption_, clears corruptedBlocks_ and then calls through the
\* empty disk_ pointer.  That call is undefined: either the process is
\* terminated there (the next process starts with a fresh facade), or the
\* call comes back with the two members already written.
SimulatePowerCutUnmounted ==
    /\ ~mounted
    /\ Step
    /\ \/ /\ hasCorruption' = TRUE
          /\ corruptedBlocks' = <<>>
          /\ UNCHANGED <<activeWriteInodeNum, blockOwners>>
       \/ /\ hasCorruption' = FALSE
          /\ corruptedBlocks' = <<>>
          /\ activeWriteInodeNum' = UINT32_MAX
          /\ blockOwners' = formatDisk.owners
    /\ last' = Call("simulatePowerCut", NoPath, NoData, 0, FALSE)
    /\ UNCHANGED <<mounted, bitmap, sb, diskSb, diskBitmap, inodes, blocks, clock>>

\* FileSystem::runRecovery has no mounted_ test either: without the flag it
\* returns true at once; with the flag it calls through the empty disk_
\* pointer (undefined: the process is terminated, or the call runs to its
\* end, where it clears the corruption state and returns true).
RunRecoveryUnmounted ==
    /\ ~mounted
    /\ Step
    /\ IF ~hasCorruption
       THEN /\ last' = Call("runRecovery", NoPath, NoData, 0, TRUE)
            /\ UNCHANGED <<hasCorruption, corruptedBlocks, activeWriteInodeNum,
                           blockOwners>>
       ELSE \/ /\ hasCorruption' = FALSE
               /\ corruptedBlocks' = <<>>
               /\ activeWriteInodeNum' = 0
               /\ last' = Call("runRecovery", NoPath, NoData, 0, TRUE)
               /\ UNCHANGED blockOwners
            \/ /\ hasCorruption' = FALSE
               /\ corruptedBlocks' = <<>>
               /\ activeWriteInodeNum' = UINT32_MAX
               /\ blockOwners' = formatDisk.owners
               /\ last' = Call("runRecovery", NoPath, NoData, 0, FALSE)
    /\ UNCHANGED <<mounted, bitmap, sb, diskSb, diskBitmap, inodes, blocks, clock>>

\* FileSystem::rebuildBlockOwnership on an unmounted facade: clears
\* blockOwners_ before it tests mounted_
RebuildOwnershipUnmounted ==
    /\ ~mounted
    /\ Step
    /\ blockOwners' = formatDisk.owners
    /\ last' = Call("rebuildBlockOwnership", NoPath, NoData, 0, FALSE)
    /\ UNCHANGED <<mounted, bitmap, sb, diskSb, diskBitmap, inodes, blocks,
                   hasCorruption, corruptedBlocks, activeWriteInodeNum, clock>>

\* FileSystem::readFile and FileSystem::listDir on an unmounted facade
ReadUnmounted == \E op \in {"readFile", "listDir"} : Refused(op)

\* FileSystem::mountFileSystem on a mounted facade: returns false
MountRefused ==
    /\ mounted
    /\ Step
    /\ last' = Call("mountFileSystem", NoPath, NoData, 0, FALSE)
    /\ UNCHANGED <<mounted, bitmap, sb, diskSb, diskBitmap, inodes, blocks,
                   blockOwners, hasCorruption, corruptedBlocks,
                   activeWriteInodeNum, clock>>

\* the process ends without unmountFileSystem and without the destructor
\* (a kill): the image stays as it is, every member of the facade is lost;
\* the next process starts with a newly constructed, unmounted facade
ProcessExit ==
    /\ mounted
    /\ Step
    /\ mounted' = FALSE
    /\ hasCorruption' = FALSE
    /\ corruptedBlocks' = <<>>
    /\ activeWriteInodeNum' = UINT32_MAX
    /\ blockOwners' = formatDisk.owners
    /\ last' = Call("processExit", NoPath, NoData, 0, TRUE)
    /\ UNCHANGED <<bitmap, sb, diskSb, diskBitmap, inodes, blocks, clock>>

\* the facade calls and process exits, over a shorter run
MaxExitSteps == 4
NextExit == Next \/ ProcessExit
InitExit == InitWith(MaxExitSteps)
SpecExit == InitExit /\ [][NextExit]_vars

\* the facade called directly, mounted or not
NextFacade ==
    \/ Next
    \/ SimulatePowerCutUnmounted
    \/ RunRecoveryUnmounted
    \/ RebuildOwnershipUnmounted
    \/ ReadUnmounted
    \/ MountRefused
SpecFacade == InitExit /\ [][NextFacade]_vars

\* ------------------------------------------------------------------- views
\* Inode::isValid
isValid(inode) == inode.fileType # FT_FREE
LiveInodes(d) == {i \in InodeNums : isValid(d.inodes[i])}
SeqRange(sq) == {sq[k] : k \in 1..Len(sq)}
\* the data blocks an inode references: its direct slots and the entries of
\* its indirect block
DataBlocksOf(d, i) == SeqRange(getInodeBlocks(d, d.inodes[i]))
IndirectOf(d, i) ==
    IF IsValidRef(d.inodes[i].indirectBlock) THEN {d.inodes[i].indirectBlock} ELSE {}
\* blocks(i): direct slots, indirect-block entries and the indirect block
BlocksOf(d, i) == DataBlocksOf(d, i) \cup IndirectOf(d, i)
UsedDataBlocks(d) == {b \in DataBlocks : ~d.bitmap[b]}
RegularFiles(d) == {i \in LiveInodes(d) : d.inodes[i].fileType = FT_REGULAR_FILE}

\* ------------------------------------------------------------------ claims
\* C1: after a successful write_file(path, bytes) on an existing regular
\* file, read_file(path) returns exactly bytes, for every payload length.
C1_WriteThenReadReturnsPayload ==
    (/\ mounted
     /\ last.op = "writeFile"
     /\ last.ok
     /\ Len(last.path) = 1
     /\ resolvePath(Disk, last.path) \in RegularFiles(Disk))
    => readFile(Disk, last.path)
         = [ok |-> TRUE, data |-> Payload(last.data.v, last.data.n)]

\* C2: in every state reachable by facade calls, the superblock's freeBlocks
\* counter equals the number of bitmap bits marked free at indices at or
\* after dataBlocksStart.
C2_FreeBlocksCountsFreeBits ==
    sb.freeBlocks = Cardinality(FreeDataBlocks(bitmap))

\* C2 witness: defragment has freed the blocks of a file and allocated them
\* again, so the counter has moved both ways
C2_Witness ==
    /\ mounted
    /\ last.op = "defragment"
    /\ \E i \in RegularFiles(Disk) : inodes[i].fileSize > 0 /\ DataBlocksOf(Disk, i) # {}
    /\ sb.freeBlocks < Cardinality(DataBlocks) - 1
    /\ sb.freeBlocks = Cardinality(FreeDataBlocks(bitmap))

\* C3: no block is referenced by two distinct live inodes.
C3_NoBlockSharedByTwoInodes ==
    \A a, b \in LiveInodes(Disk) :
        a # b => BlocksOf(Disk, a) \cap BlocksOf(Disk, b) = {}

\* C4: every block referenced by a valid inode of the inode table is marked
\* used in the bitmap.
C4_ReferencedBlocksAreUsed ==
    \A i \in LiveInodes(Disk) : BlocksOf(Disk, i) \subseteq UsedDataBlocks(Disk)

\* C5: every used data-region block is a data block or the indirect block
\* of some live inode.
C5_NoLeakedBlocks ==
    \A b \in UsedDataBlocks(Disk) : \E i \in LiveInodes(Disk) : b \in BlocksOf(Disk, i)

\* C6: every live regular-file inode references exactly ceil(size / B) data
\* blocks.
C6_BlockCountMatchesSize ==
    \A i \in RegularFiles(Disk) :
        Len(getInodeBlocks(Disk, inodes[i])) = CeilDiv(inodes[i].fileSize, BLOCK_SIZE)

\* C7: defragment() on a non-corrupted mounted volume leaves read_file(f) of
\* every regular file f as it was immediately before the call.
C7_DefragmentPreservesContents ==
    [][(mounted /\ ~hasCorruption /\ last'.op = "defragment")
       => \A p \in FilePaths :
              readFile(Disk, p).ok => readFile(Disk', p) = readFile(Disk, p)]_vars

\* C8: after defragment() on a non-corrupted mounted volume the used
\* data-region blocks are exactly [dataBlocksStart, dataBlocksStart + used).
C8_UsedBlocksArePrefixAfterDefragment ==
    (mounted /\ ~hasCorruption /\ last.op = "defragment")
    => UsedDataBlocks(Disk)
         = dataBlocksStart .. (dataBlocksStart + Cardinality(UsedDataBlocks(Disk)) - 1)

\* C9: after defragment() on a non-corrupted mounted volume every regular
\* file with nonzero size has fragment count 1.
C9_OneFragmentAfterDefragment ==
    (mounted /\ ~hasCorruption /\ last.op = "defragment")
    => \A i \in RegularFiles(Disk) :
           inodes[i].fileSize > 0 => countFileFragments(inodes[i]) = 1

\* C10: run_recovery() after one or several simulated crashes leaves
\* has_corruption false and the corrupted set empty, and no live inode, the
\* root directory included, references a block of the corrupted set that
\* was reported before the call.
C10_RecoveryRemovesCorruptedReferences ==
    [][(mounted /\ hasCorruption /\ last'.op = "runRecovery")
       => /\ ~hasCorruption'
          /\ corruptedBlocks' = <<>>
          /\ \A i \in LiveInodes(Disk') :
                 BlocksOf(Disk', i) \cap SeqRange(corruptedBlocks) = {}]_vars

\* DirectoryManager::listDirectory of the root directory
rootEntries(d) == readDirectoryEntries(d, d.inodes[0])
\* the entries of the root directory that name an inode out of range or a
\* free inode
DanglingRootEntries(d) ==
    {k \in 1..Len(rootEntries(d)) :
        \/ ~ULess(rootEntries(d)[k].inodeNumber, inodeCount)
        \/ ~isValid(d.inodes[rootEntries(d)[k].inodeNumber])}

\* C11: after run_recovery() completes on a corrupted volume, no data-region
\* block is marked used without an owning live inode, and every entry of the
\* root directory names a live inode.
C11_RecoveryLeavesNoOrphansNoDangling ==
    [][(mounted /\ hasCorruption /\ last'.op = "runRecovery")
       => /\ \A b \in UsedDataBlocks(Disk') :
                 \E i \in LiveInodes(Disk') : b \in BlocksOf(Disk', i)
          /\ DanglingRootEntries(Disk') = {}]_vars

\* simulatePowerCut() immediately followed by runRecovery(): the image
\* after both calls
crashThenRecover(d, now) ==
    Bind(simulatePowerCut(d), LAMBDA c : runRecovery(c.d, c.corrupted, now))
\* the paths of the root directory that name a regular file
RootFilePaths(d) ==
    {p \in FilePaths : Len(p) = 1 /\ HasName(rootEntries(d), NameOf(p))
                       /\ readFile(d, p).ok}

\* C12: when several files of the root directory have been created and
\* written, the last write being write_file(last.path), simulate_crash()
\* followed by run_recovery() removes that file from list_dir("/") and
\* removes no other: every other file is still listed and read_file returns
\* for it what it returned before the crash.
C12_CrashRecoveryRemovesOnlyLastWritten ==
    (/\ mounted /\ ~hasCorruption
     /\ last.op = "writeFile" /\ last.ok
     /\ last.path \in RootFilePaths(Disk)
     /\ RootFilePaths(Disk) # {last.path})
    => /\ ~HasName(rootEntries(crashThenRecover(Disk, clock)), NameOf(last.path))
       /\ \A p \in RootFilePaths(Disk) \ {last.path} :
             /\ HasName(rootEntries(crashThenRecover(Disk, clock)), NameOf(p))
             /\ readFile(crashThenRecover(Disk, clock), p) = readFile(Disk, p)

\* C13: while has_corruption is true, write_file, delete_file and defragment
\* are rejected and leave the bitmap, the inode table, the directories (the
\* block contents) and freeBlocks unchanged.
C13_MutationsRejectedWhileCorrupted ==
    [][(/\ mounted /\ hasCorruption
        /\ steps' # steps
        /\ clock' = clock
        /\ last'.op \in {"writeFile", "deleteFile", "defragment"})
       => /\ ~last'.ok
          /\ bitmap' = bitmap
          /\ inodes' = inodes
          /\ blocks' = blocks
          /\ sb'.freeBlocks = sb.freeBlocks]_vars

\* C14: the corruption flag follows Normal -> Corrupted -> Normal:
\* has_corruption goes from false to true only in a simulate_crash call or a
\* successful simulate_crash_during_write call, and from true to false only
\* in a run_recovery call; simulate_crash always sets it and run_recovery
\* always clears it; no other call, unmount and mount included, changes it.
C14_CorruptionFlagMachine ==
    [][/\ (~hasCorruption /\ hasCorruption')
            => \/ last'.op = "simulatePowerCut"
               \/ (last'.op = "simulatePowerCutDuringWrite" /\ last'.ok)
       /\ (hasCorruption /\ ~hasCorruption') => last'.op = "runRecovery"
       /\ (steps' # steps /\ clock' = clock /\ last'.op = "simulatePowerCut")
            => hasCorruption'
       /\ (steps' # steps /\ clock' = clock /\ last'.op = "runRecovery")
            => ~hasCorruption']_vars
\* a recovery that cleared the flag on a volume that was unmounted and
\* mounted again since its creation
C14_Witness ==
    /\ mounted /\ ~hasCorruption
    /\ last.op = "runRecovery"
    /\ activeWriteInodeNum = 0
    /\ sb.cleanShutdown = 0

\* FileSystem::listDir and FileSystem::getFileInfo (stat) on a mounted volume
listDir(d, path) ==
    Bind(resolvePath(d, path), LAMBDA inodeNum :
        IF inodeNum < 0 \/ inodeNum >= inodeCount THEN <<>>
        ELSE readDirectoryEntries(d, d.inodes[inodeNum]))
getFileInfo(d, path) ==
    Bind(resolvePath(d, path), LAMBDA inodeNum :
        IF inodeNum < 0 \/ inodeNum >= inodeCount
        THEN [ok |-> FALSE, info |-> ResetInode]
        ELSE [ok |-> TRUE, info |-> d.inodes[inodeNum]])
AllPaths == {<<>>} \cup FilePaths \cup DirPaths

\* C15: unmount() followed by mount() of the same image exposes the same
\* list_dir, read_file and stat results for every path present before the
\* unmount, and the same bitmap and freeBlocks value.  While the volume is
\* unmounted no call changes the image, and bitmap and sb keep the values
\* they had at the unmount, so the mount step compares both sides.
C15_UnmountMountPreservesView ==
    [][(~mounted /\ mounted')
       => /\ bitmap' = bitmap
          /\ sb'.freeBlocks = sb.freeBlocks
          /\ \A p \in AllPaths :
                resolvePath(Disk, p) >= 0
                => /\ listDir(Disk', p) = listDir(Disk, p)
                   /\ readFile(Disk', p) = readFile(Disk, p)
                   /\ getFileInfo(Disk', p) = getFileInfo(Disk, p)]_vars
\* a volume mounted again that holds a file with data and a subdirectory
C15_Witness ==
    /\ mounted /\ last.op = "mountFileSystem"
    /\ \E i \in RegularFiles(Disk) : inodes[i].fileSize > 0
    /\ resolvePath(Disk, <<NameD>>) >= 0
    /\ bitmap = readBitmap(diskBitmap)

\* C16: after a successful write_file(path, bytes) on a regular file of the
\* root directory, stat(path).size equals |bytes| and stat(path).blockCount
\* equals ceil(|bytes| / B), also when the file held blocks before.
C16_StatAfterWrite ==
    (/\ mounted
     /\ last.op = "writeFile" /\ last.ok
     /\ Len(last.path) = 1
     /\ resolvePath(Disk, last.path) \in RegularFiles(Disk))
    => /\ getFileInfo(Disk, last.path).info.fileSize = last.data.n
       /\ getFileInfo(Disk, last.path).info.blockCount
              = CeilDiv(last.data.n, BLOCK_SIZE)

\* the blocks a file of the given size holds: its n = ceil(size / B) data
\* blocks, and one indirect block when n exceeds the direct slots
HeldBlocks(size) ==
    IF CeilDiv(size, BLOCK_SIZE) <= DIRECT_BLOCKS THEN CeilDiv(size, BLOCK_SIZE)
    ELSE CeilDiv(size, BLOCK_SIZE) + 1

\* C17: a successful write_file on a regular file of the root directory of
\* a volume that is not corrupted changes free_blocks by exactly (blocks
\* held before) - (blocks held after), a file of n = ceil(size / B) data
\* blocks holding n blocks if n <= 12 and n + 1 blocks otherwise.
C17_WriteChangesFreeBlocksByHeldDifference ==
    [][(/\ mounted /\ ~hasCorruption
        /\ steps' # steps /\ clock' = clock
        /\ last'.op = "writeFile" /\ last'.ok
        /\ Len(last'.path) = 1
        /\ resolvePath(Disk, last'.path) \in RegularFiles(Disk))
       => sb'.freeBlocks - sb.freeBlocks
              = HeldBlocks(inodes[resolvePath(Disk, last'.path)].fileSize)
                - HeldBlocks(last'.data.n)]_vars

\* C18: delete_file(path) on an existing regular file of a volume that is
\* not corrupted frees every block the inode holds (direct blocks, the
\* blocks listed in its indirect block and the indirect block itself),
\* returns the inode to kind free and removes the directory entry, and
\* free_blocks rises by the number of blocks the file held.
C18_DeleteFreesEverything ==
    [][(/\ mounted /\ ~hasCorruption
        /\ steps' # steps /\ clock' = clock
        /\ last'.op = "deleteFile" /\ last'.ok
        /\ resolvePath(Disk, last'.path) \in RegularFiles(Disk))
       => /\ \A b \in BlocksOf(Disk, resolvePath(Disk, last'.path)) : bitmap'[b]
          /\ ~isValid(inodes'[resolvePath(Disk, last'.path)])
          /\ resolvePath(Disk', last'.path) < 0
          /\ sb'.freeBlocks = sb.freeBlocks
                + Cardinality(BlocksOf(Disk, resolvePath(Disk, last'.path)))]_vars

\* createFile(path) immediately followed by deleteFile(path): the image
\* after both calls and whether both succeeded
createThenDelete(d, path, now) ==
    Bind(createFile(d, path, now), LAMBDA c :
        IF ~c.ok THEN [d |-> c.d, ok |-> FALSE]
        ELSE deleteFile(c.d, path, now))

\* C19: in any state of a mounted volume, a successful create_file(path)
\* immediately followed by delete_file(path) succeeds and leaves free_blocks
\* equal to its value before the create.
C19_CreateDeleteKeepsFreeBlocks ==
    mounted
    => \A p \in FilePaths :
          createFile(Disk, p, clock).ok
          => /\ createThenDelete(Disk, p, clock).ok
             /\ createThenDelete(Disk, p, clock).d.freeBlocks = sb.freeBlocks

\* C20: when write_file on an existing regular file of a volume that is not
\* corrupted fails because a block allocation fails, the file's inode in
\* the inode table afterwards has size 0 and references no blocks, and the
\* blocks the file held before the call are free.  (A write_file that fails
\* before its free loop changes nothing; the failed calls that change the
\* image are the ones whose allocation failed.)
C20_FailedWriteLeavesEmptyFile ==
    [][(/\ mounted /\ ~hasCorruption
        /\ steps' # steps /\ clock' = clock
        /\ last'.op = "writeFile" /\ ~last'.ok
        /\ lookupEntry(Disk, 0, NameOf(last'.path)) \in RegularFiles(Disk))
       => /\ inodes'[lookupEntry(Disk, 0, NameOf(last'.path))].fileSize = 0
          /\ BlocksOf(Disk', lookupEntry(Disk, 0, NameOf(last'.path))) = {}
          /\ \A b \in BlocksOf(Disk, lookupEntry(Disk, 0, NameOf(last'.path))) :
                bitmap'[b]]_vars

\* the volume as createFileSystem leaves it: no facade call has followed
FreshVolume == mounted /\ last.op = "createFileSystem"
SystemBitsUsed == \A b \in Blocks : b < dataBlocksStart => ~bitmap[b]
ValidRoot == inodes[0].fileType = FT_DIRECTORY /\ inodes[0].inodeNumber = 0

\* C21 (as claimed): a freshly created volume has every system-region bit
\* used and every data-region bit free, freeBlocks = totalBlocks -
\* dataBlocksStart, cleanShutdown = 1 and a valid root directory at inode 0.
C21_FreshVolumeAllDataFree ==
    FreshVolume
    => /\ SystemBitsUsed
       /\ \A b \in DataBlocks : bitmap[b]
       /\ sb.freeBlocks = totalBlocks - dataBlocksStart
       /\ sb.cleanShutdown = 1
       /\ ValidRoot

\* C21: a freshly created volume has every system-region bit used, the
\* first data block used by the root directory and every other data-region
\* bit free, freeBlocks = totalBlocks - dataBlocksStart - 1, cleanShutdown =
\* 1 and a valid root directory at inode 0 that references that block.
C21_FreshVolumeRootHoldsFirstBlock ==
    FreshVolume
    => /\ SystemBitsUsed
       /\ UsedDataBlocks(Disk) = {dataBlocksStart}
       /\ getInodeBlocks(Disk, inodes[0]) = <<dataBlocksStart>>
       /\ sb.freeBlocks = totalBlocks - dataBlocksStart - 1
       /\ sb.cleanShutdown = 1
       /\ ValidRoot
C21_Witness ==
    /\ FreshVolume
    /\ ~bitmap[dataBlocksStart] /\ ValidRoot

\* C22: in every state of a mounted volume, list_dir("/") contains the
\* entries "." and "..", both referring to inode 0.
C22_RootListsDotAndDotDot ==
    mounted
    => \A name \in {<<46>>, <<46, 46>>} :
          \E k \in 1..Len(listDir(Disk, <<>>)) :
              /\ listDir(Disk, <<>>)[k].name = name
              /\ listDir(Disk, <<>>)[k].inodeNumber = 0

\* C23: unmount() leaves cleanShutdown = 1 in the superblock of the image;
\* a mount() leaves it 0 and it stays 0 until the next unmount(), through
\* every other call and through a process exit without unmount, so that
\* the image is dirty at the next mount; a mount of a dirty image succeeds.
C23_CleanShutdownFlag ==
    [][/\ (mounted /\ steps' # steps /\ last'.op = "unmountFileSystem")
            => (~mounted' /\ diskSb'.cleanShutdown = 1)
       /\ (~mounted /\ mounted') => diskSb'.cleanShutdown = 0
       /\ (diskSb.cleanShutdown = 0 /\ ~(mounted /\ last'.op = "unmountFileSystem"))
            => diskSb'.cleanShutdown = 0
       /\ (~mounted /\ diskSb.cleanShutdown = 0 /\ steps' # steps
           /\ last'.op = "mountFileSystem")
            => (mounted' /\ last'.ok)]_vars
\* a dirty image left by a process that mounted the volume and exited
\* without unmount, with a call left to mount it
C23_Witness ==
    /\ ~mounted /\ last.op = "processExit"
    /\ diskSb.cleanShutdown = 0
    /\ steps > 0

\* C24: for a file inode just created by create_file, also when its inode
\* slot was used and freed before, list_blocks is empty, no slot of the
\* record is a block reference (so no block is read through it) and
\* read_file returns zero bytes without error.
C24_NewFileHasNoBlocks ==
    (/\ mounted /\ last.op = "createFile" /\ last.ok
     /\ resolvePath(Disk, last.path) \in RegularFiles(Disk))
    => /\ getInodeBlocks(Disk, inodes[resolvePath(Disk, last.path)]) = <<>>
       /\ ~IsValidRef(inodes[resolvePath(Disk, last.path)].indirectBlock)
       /\ \A k \in 1..DIRECT_BLOCKS :
             ~IsValidRef(inodes[resolvePath(Disk, last.path)].directBlocks[k])
       /\ readFile(Disk, last.path) = [ok |-> TRUE, data |-> <<>>]
\* a file just created in an inode slot that owned a block, now free, before
C24_Witness ==
    /\ mounted /\ last.op = "createFile" /\ last.ok
    /\ resolvePath(Disk, last.path) \in RegularFiles(Disk)
    /\ \E b \in DataBlocks :
          bitmap[b] /\ blockOwners[b] = resolvePath(Disk, last.path)

\* C25: every facade operation issued while the volume is unmounted
\* (create_file, write_file, read_file, delete_file, list_dir, simulate_crash,
\* simulate_crash_during_write, run_recovery, rebuild_ownership) fails and
\* changes no facade state, the corruption flag included; mount() on a mounted
\* facade fails and leaves it mounted.
C25_UnmountedCallsChangeNothing ==
    [][/\ (/\ ~mounted /\ steps' # steps /\ clock' = clock
           /\ last'.op \in {"createFile", "writeFile", "readFile", "deleteFile",
                            "listDir", "simulatePowerCut",
                            "simulatePowerCutDuringWrite", "runRecovery",
                            "rebuildBlockOwnership"})
          => /\ ~last'.ok
             /\ UNCHANGED <<mounted, bitmap, sb, diskSb, diskBitmap, inodes,
                            blocks, blockOwners, hasCorruption, corruptedBlocks,
                            activeWriteInodeNum>>
       /\ (/\ mounted /\ steps' # steps /\ clock' = clock
           /\ last'.op = "mountFileSystem")
          => /\ ~last'.ok
             /\ UNCHANGED <<mounted, bitmap, sb, diskSb, diskBitmap, inodes,
                            blocks, blockOwners, hasCorruption, corruptedBlocks,
                            activeWriteInodeNum>>]_vars

\* C26: the allocator returns the lowest-indexed free block at or after
\* dataBlocksStart, marks it used and decrements freeBlocks by 1; it never
\* returns an index below dataBlocksStart; when no data block is free it
\* reports -1 and leaves the bitmap and freeBlocks unchanged.
C26_AllocateLowestFreeDataBlock ==
    mounted =>
        IF \A b \in DataBlocks : ~bitmap[b]
        THEN allocateBlock(Disk) = [d |-> Disk, r |-> -1]
        ELSE /\ allocateBlock(Disk).r \in dataBlocksStart..(totalBlocks - 1)
             /\ bitmap[allocateBlock(Disk).r]
             /\ \A b \in dataBlocksStart..(allocateBlock(Disk).r - 1) : ~bitmap[b]
             /\ allocateBlock(Disk).d =
                   [Disk EXCEPT !.bitmap[allocateBlock(Disk).r] = FALSE,
                                !.freeBlocks = sb.freeBlocks - 1]
\* a write that failed because the allocator ran out of data blocks
C26_Witness ==
    /\ mounted /\ last.op = "writeFile" /\ ~last.ok
    /\ \A b \in DataBlocks : ~bitmap[b]
    /\ allocateBlock(Disk).r = -1

\* block numbers handed to freeBlock: both ends of the system region, every
\* data block, the first numbers past the disk and the all-ones value
FreeInputs == {0, 1, dataBlocksStart - 1} \cup DataBlocks
              \cup {totalBlocks, totalBlocks + 1, UINT32_MAX}

\* C27: free(i) with i below dataBlocksStart or i >= totalBlocks fails and
\* changes nothing; free(i) on a used data block marks it free, zero-fills it
\* and increments freeBlocks by 1; free(i) on an already-free block changes
\* neither the bitmap nor freeBlocks, so freeing a block twice has the effect
\* of freeing it once.
C27_FreeBlockCases ==
    mounted =>
        \A i \in FreeInputs :
            /\ (i \notin DataBlocks)
                  => (~freeBlockReturns(Disk, i) /\ freeBlock(Disk, i) = Disk)
            /\ (i \in DataBlocks /\ ~bitmap[i])
                  => /\ freeBlockReturns(Disk, i)
                     /\ freeBlock(Disk, i) =
                           [Disk EXCEPT !.bitmap[i] = TRUE,
                                        !.blocks[i] = ZeroBlock,
                                        !.freeBlocks = sb.freeBlocks + 1]
            /\ (i \in DataBlocks /\ bitmap[i])
                  => /\ freeBlock(Disk, i).bitmap = bitmap
                     /\ freeBlock(Disk, i).freeBlocks = sb.freeBlocks
            /\ freeBlock(freeBlock(Disk, i), i) = freeBlock(Disk, i)
\* after a delete: a used block with contents to zero, and a block that was
\* owned and is free now, so that freeing it again is a second free
C27_Witness ==
    /\ mounted /\ last.op = "deleteFile" /\ last.ok
    /\ \E i \in DataBlocks : ~bitmap[i] /\ blocks[i] # ZeroBlock
    /\ \E j \in DataBlocks : bitmap[j] /\ blockOwners[j] # NO_OWNER

\* ------------------------------------------- list_blocks on arbitrary records
\* setBlockOwner over a list of blocks
RECURSIVE setBlockOwners(_, _, _)
setBlockOwners(owners, bs, i) ==
    IF bs = <<>> THEN owners
    ELSE setBlockOwners([owners EXCEPT ![Head(bs)] = i], Tail(bs), i)

\* FileSystem::rebuildBlockOwnership, inodes i and above: the loop body
\* repeats the slot tests of getInodeBlocks
RECURSIVE rebuildFrom(_, _, _)
rebuildFrom(d, owners, i) ==
    IF i >= inodeCount THEN owners
    ELSE rebuildFrom(d,
             IF isValid(d.inodes[i]) /\ d.inodes[i].fileType = FT_REGULAR_FILE
             THEN setBlockOwners(owners, getInodeBlocks(d, d.inodes[i]), i)
             ELSE owners,
             i + 1)

\* FileSystem::rebuildBlockOwnership on a mounted volume
rebuildBlockOwnership(d) == rebuildFrom(d, [b \in Blocks |-> NO_OWNER], 0)

RebuildOwnership ==
    /\ mounted
    /\ Step
    /\ blockOwners' = rebuildBlockOwnership(Disk)
    /\ last' = Call("rebuildBlockOwnership", NoPath, NoData, 0, TRUE)
    /\ UNCHANGED <<mounted, bitmap, sb, diskSb, diskBitmap, inodes, blocks,
                   hasCorruption, corruptedBlocks, activeWriteInodeNum, clock>>

\* values of a 32-bit block-reference slot: empty, all ones, both ends of
\* the system region, both ends of the data region, the first index past
\* the disk
SlotValues == {0, UINT32_MAX, 1, dataBlocksStart - 1, dataBlocksStart,
               totalBlocks - 1, totalBlocks}
\* the words of an indirect block: none, or two words
IndirectWords ==
    {<<>>} \cup {<<w1, w2>> : w1 \in SlotValues, w2 \in SlotValues \ {0}}

\* a mounted image holding the file /a, whose inode record has arbitrary
\* values in its first two direct slots and, when it has an indirect block,
\* arbitrary words in that block
InitListBlocks ==
    /\ mounted = TRUE
    /\ \E s1 \in SlotValues, s2 \in SlotValues, ws \in IndirectWords :
       \E d \in {[createFile(createFileSystem, <<NameA>>, 1).d EXCEPT
                     !.inodes[1].directBlocks[1] = s1,
                     !.inodes[1].directBlocks[2] = s2,
                     !.inodes[1].indirectBlock =
                         IF ws = <<>> THEN 0 ELSE dataBlocksStart + 1,
                     !.blocks[dataBlocksStart + 1] = PtrContent(ws)]} :
          /\ bitmap = d.bitmap
          /\ sb = [freeBlocks |-> d.freeBlocks, cleanShutdown |-> 0]
          /\ diskSb = [freeBlocks |-> d.freeBlocks, cleanShutdown |-> 0]
          /\ diskBitmap = writeBitmap(d.bitmap)
          /\ inodes = d.inodes
          /\ blocks = d.blocks
          /\ blockOwners = d.owners
    /\ hasCorruption = FALSE
    /\ corruptedBlocks = <<>>
    /\ activeWriteInodeNum = UINT32_MAX
    /\ clock = 1
    /\ steps = MaxExitSteps
    /\ last = Call("mountFileSystem", NoPath, NoData, 0, TRUE)

NextListBlocks == RebuildOwnership \/ Tick
SpecListBlocks == InitListBlocks /\ [][NextListBlocks]_vars

\* C28: for every inode record and every indirect-block content, list_blocks
\* emits only references in [dataBlocksStart, totalBlocks): a slot holding 0,
\* the all-ones value, a system-region index or an index >= totalBlocks is
\* skipped.
C28_ListBlocksOnlyDataRegion ==
    mounted =>
        \A i \in InodeNums :
            \A k \in 1..Len(getInodeBlocks(Disk, inodes[i])) :
                getInodeBlocks(Disk, inodes[i])[k] \in DataBlocks

\* C29: simulate_crash() changes no inode record and no bitmap bit (the
\* targeted inode keeps its size and block references, its blocks stay used);
\* it only sets has_corruption and records as the corrupted set the
\* direct-block indices of the most recently modified regular-file inode,
\* never those of a directory.
C29_CrashChangesOnlyCorruptionState ==
    [][(/\ mounted /\ steps' # steps /\ clock' = clock
        /\ last'.op = "simulatePowerCut")
       => /\ inodes' = inodes
          /\ bitmap' = bitmap
          /\ hasCorruption'
          /\ IF RegularFiles(Disk) = {} THEN corruptedBlocks' = <<>>
             ELSE \E i \in RegularFiles(Disk) :
                     /\ \A j \in RegularFiles(Disk) :
                           inodes[j].modifiedTime <= inodes[i].modifiedTime
                     /\ corruptedBlocks' = validDirectBlocks(inodes[i])]_vars

\* C30: create_file(path) for a name that already exists in the parent
\* directory fails and changes nothing; whenever create_file fails, no inode
\* is left allocated by it; on success the path names a new regular file of
\* size 0 with no data blocks.
C30_CreateFileFailsCleanly ==
    mounted =>
        \A path \in FilePaths \cup {<<NameA, NameB>>} :
            /\ (/\ resolvePath(Disk, DirOf(path)) >= 0
                /\ lookupEntry(Disk, resolvePath(Disk, DirOf(path)),
                               NameOf(path)) >= 0)
                  => createFile(Disk, path, clock) = [d |-> Disk, ok |-> FALSE]
            /\ ~createFile(Disk, path, clock).ok
                  => LiveInodes(createFile(Disk, path, clock).d) = LiveInodes(Disk)
            /\ createFile(Disk, path, clock).ok
                  => \E i \in RegularFiles(createFile(Disk, path, clock).d) :
                        /\ i \notin LiveInodes(Disk)
                        /\ i = resolvePath(createFile(Disk, path, clock).d, path)
                        /\ createFile(Disk, path, clock).d.inodes[i].fileSize = 0
                        /\ getInodeBlocks(createFile(Disk, path, clock).d,
                              createFile(Disk, path, clock).d.inodes[i]) = <<>>

\* the live directory inodes
Directories(d) == {i \in LiveInodes(d) : d.inodes[i].fileType = FT_DIRECTORY}
\* the positions <<dir, k>> of the entries, other than "." and "..", that
\* name inode i
NamingEntries(d, i) ==
    {p \in Directories(d) \X (1..(2 + inodeCount)) :
        /\ p[2] <= Len(readDirectoryEntries(d, d.inodes[p[1]]))
        /\ readDirectoryEntries(d, d.inodes[p[1]])[p[2]].inodeNumber = i
        /\ readDirectoryEntries(d, d.inodes[p[1]])[p[2]].name
              \notin {<<46>>, <<46, 46>>}}

\* C31: directory entries and live inodes correspond one to one: every live
\* inode other than the root is named by exactly one directory entry ("."
\* and ".." apart), and every directory entry names a live inode.
C31_EntriesMatchLiveInodes ==
    mounted =>
        /\ \A i \in LiveInodes(Disk) \ {0} :
              Cardinality(NamingEntries(Disk, i)) = 1
        /\ \A dir \in Directories(Disk) :
              \A k \in 1..Len(readDirectoryEntries(Disk, inodes[dir])) :
                 /\ ULess(readDirectoryEntries(Disk, inodes[dir])[k].inodeNumber,
                          inodeCount)
                 /\ isValid(inodes[readDirectoryEntries(Disk, inodes[dir])[k].inodeNumber])

\* no two entries of the list have the same stored name
DistinctNames(entries) ==
    \A j, k \in 1..Len(entries) : entries[j].name = entries[k].name => j = k

\* C32: no directory ever contains two entries with the same stored name:
\* add_entry rejects a name whose stored form, after truncation to
\* MAX_FILENAME_LENGTH - 1 characters, is the stored name of an existing
\* entry.  Checked on the root directory after create_file is called twice
\* with the same name, a short one and one of MAX_FILENAME_LENGTH characters.
C32_NoDuplicateStoredNames ==
    (mounted /\ DistinctNames(rootEntries(Disk))) =>
        \A name \in {NameA, [j \in 1..MAX_FILENAME_LENGTH |-> 97]} :
            DistinctNames(rootEntries(
                createFile(createFile(Disk, <<name>>, clock).d,
                           <<name>>, clock).d))

\* ------------------------------------------- remove_entry on large directories
\* the largest root directory of the initial images, in entries
MaxDirEntries == 66
\* n entries with distinct two-character names, naming inodes 1 and above
DirEntries(n) ==
    [k \in 1..n |-> Entry(1 + (k % (inodeCount - 1)), <<97, k>>, FT_REGULAR_FILE)]

\* a mounted image whose root directory was written with 2 entries, with a
\* full block, with one or with two entries in a second block
InitDirectory ==
    /\ mounted = TRUE
    /\ \E n \in {2, entriesPerBlock, entriesPerBlock + 1, MaxDirEntries} :
       \E d \in {writeDirectoryEntries(createFileSystem, createFileSystem.inodes[0],
                                       DirEntries(n), 1).d} :
          /\ bitmap = d.bitmap
          /\ sb = [freeBlocks |-> d.freeBlocks, cleanShutdown |-> 0]
          /\ diskSb = [freeBlocks |-> d.freeBlocks, cleanShutdown |-> 0]
          /\ diskBitmap = writeBitmap(d.bitmap)
          /\ inodes = d.inodes
          /\ blocks = d.blocks
          /\ blockOwners = d.owners
    /\ hasCorruption = FALSE
    /\ corruptedBlocks = <<>>
    /\ activeWriteInodeNum = UINT32_MAX
    /\ clock = 1
    /\ steps = MaxExitSteps
    /\ last = Call("mountFileSystem", NoPath, NoData, 0, TRUE)

\* DirectoryManager::removeEntry on the root directory, for the first two
\* names, the last name of the first block and the first two of the second
RemoveEntry ==
    \E k \in {1, 2, entriesPerBlock, entriesPerBlock + 1, MaxDirEntries} :
        /\ mounted
        /\ Step
        /\ \E r \in {removeEntry(Disk, 0, <<97, k>>, clock)} :
              /\ r.ok \/ r.d # Disk
              /\ Install(r.d)
              /\ last' = Call("removeEntry", <<<<97, k>>>>, NoData, 0, r.ok)
        /\ UNCHANGED <<mounted, diskSb, diskBitmap, hasCorruption,
                       corruptedBlocks, activeWriteInodeNum, clock>>

NextDirectory == RemoveEntry \/ Tick
SpecDirectory == InitDirectory /\ [][NextDirectory]_vars

\* C33: after remove_entry(dir, name) succeeds, the listing of dir omits
\* name and contains exactly the other entries that were present before,
\* each once, also when the directory shrank from two
\* body blocks to one.
C33_RemoveEntryKeepsTheOthers ==
    [][(/\ mounted /\ steps' # steps /\ clock' = clock
        /\ last'.op = "removeEntry" /\ last'.ok)
       => \E old \in {rootEntries(Disk)}, new \in {rootEntries(Disk')} :
             \E kept \in {{k \in 1..Len(old) : old[k].name # last'.path[1]}} :
                /\ \A j \in 1..Len(new) : new[j].name # last'.path[1]
                /\ Len(new) = Cardinality(kept)
                /\ \A k \in kept :
                      Cardinality({j \in 1..Len(new) : new[j] = old[k]}) = 1]_vars
\* a removal that took the root directory from two body blocks to one full
\* block
C33_Witness ==
    /\ mounted /\ last.op = "removeEntry" /\ last.ok
    /\ Len(rootEntries(Disk)) = entriesPerBlock
    /\ Len(getInodeBlocks(Disk, inodes[0])) = 2

\* C34: write_file(path, bytes) modifies only the inode that
\* resolve_path(path) designates: for a path inside a subdirectory it changes
\* the file that read_file(path) reads and leaves every other inode, in
\* particular a root-level file with the same final name, unchanged.
C34_WriteTouchesOnlyResolvedInode ==
    [][(/\ mounted /\ steps' # steps /\ clock' = clock
        /\ last'.op = "writeFile")
       => \A i \in InodeNums :
             i # resolvePath(Disk, last'.path) => inodes'[i] = inodes[i]]_vars

\* C35: write_file and delete_file applied to a path that names a directory
\* fail and leave the directory's inode, body blocks and entries and the
\* bitmap unchanged.
C35_DirectoryPathsRefused ==
    mounted =>
        \A path \in DirPaths :
            resolvePath(Disk, path) \in Directories(Disk)
               => /\ \A data \in WritePayloads :
                        writeFile(Disk, path, data) = [d |-> Disk, ok |-> FALSE]
                  /\ deleteFile(Disk, path, clock) = [d |-> Disk, ok |-> FALSE]

\* C36: the block-ownership map has an entry only for blocks currently marked
\* used, and each entry block_owner(b) = k names a live inode k that
\* references b (every free of a block removes its entry).
C36_OwnersNameLiveReferencingInodes ==
    mounted =>
        \A b \in Blocks :
            blockOwners[b] # NO_OWNER
               => /\ ~bitmap[b]
                  /\ blockOwners[b] \in LiveInodes(Disk)
                  /\ b \in BlocksOf(Disk, blockOwners[b])

\* step 3 of defragmentFileSystem reaches "Failed to allocate block during
\* defrag" for one of the files of todo: allocateBlockCompact returns -1
\* before the file has its blocksNeeded blocks (d is the image after the
\* files before it were placed, d0 the image the files were collected from)
RECURSIVE allocationFails(_, _, _)
allocationFails(d, d0, todo) ==
    IF todo = {} THEN FALSE
    ELSE Bind(SetMin(todo), LAMBDA i :
            \/ Len(compactAllocate(d, CeilDiv(d0.inodes[i].fileSize, BLOCK_SIZE),
                                   i, <<>>).newBlocks)
                  < CeilDiv(d0.inodes[i].fileSize, BLOCK_SIZE)
            \/ allocationFails(reallocateFile(d, d0, i), d0, todo \ {i}))

\* C37: when defragment() cannot allocate all the blocks needed to re-place
\* the collected files it reports failure to the caller instead of success,
\* and on a volume satisfying P1-P4 (free count, no sharing, size
\* consistency, no leaked block) the reallocation never runs out of blocks.
C37_DefragmentReportsShortage ==
    [][(/\ mounted /\ steps' # steps /\ clock' = clock
        /\ last'.op = "defragment"
        /\ allocationFails(freeOldBlocks(Disk, Disk, defragFiles(Disk)), Disk,
                           defragFiles(Disk)))
       => /\ ~last'.ok
          /\ ~(/\ C2_FreeBlocksCountsFreeBits
               /\ C3_NoBlockSharedByTwoInodes
               /\ C6_BlockCountMatchesSize
               /\ C5_NoLeakedBlocks)]_vars

====
